---- MODULE Spec2Model ----
(***************************************************************************)
(* Mira control plane: the command arbiter (handle_command), the State     *)
(* patch engine (State.apply_patch), the event store (persist_event), the  *)
(* broker (publish_state / subscribe) and the WebSocket hubs (ws_state,    *)
(* state_websocket).  handle_command is a coroutine: every                 *)
(* "await persist_event" and "await publish_state" is a suspension point   *)
(* at which other handle_command calls may run.                            *)
(***************************************************************************)
EXTENDS Integers, Sequences, FiniteSets, TLC

VARIABLES
    state,      \* the State singleton (control-plane/app/core/state.py)
    clock,      \* datetime.utcnow(), as a counter
    events,     \* rows of the events table, in insertion order
    published,  \* every patch the broker accepted, in arrival order
    tasks,      \* the handle_command calls in flight: task -> position and locals
    last,       \* record of the handle_command call that returned most recently
    started,    \* number of Commands submitted so far
    base,       \* State when the current group of overlapping calls began
    batch,      \* the Commands of the current group of overlapping calls
    dbUp,       \* the event store accepts writes
    brokerUp,   \* the broker accepts publishes
    chan,       \* broker messages not yet delivered to the hub's subscriber
    clients,    \* hub -> the hub's set of subscribed clients
    conn,       \* client -> "none" or the hub it is connected to
    frames,     \* client -> the frames sent to it, in order
    hub,        \* hub -> position of its subscriber task and broadcast loop
    snapshots,  \* rows of the snapshots table, in insertion order
    worker      \* the gesture worker: GestureWorker's attributes and its link

arbVars == <<state, clock, events, published, tasks, last, started, base, batch>>
envVars == <<dbUp, brokerUp, snapshots, worker>>
hubVars == <<chan, clients, conn, frames, hub>>
vars == <<state, clock, events, published, tasks, last, started, base, batch,
          dbUp, brokerUp, chan, clients, conn, frames, hub, snapshots, worker>>

(***************************************************************************)
(* Bounds of the model.                                                    *)
(***************************************************************************)
MaxCmds == 4        \* Commands submitted in one behaviour
MaxTasks == 2       \* handle_command calls in flight at once
MaxClients == 2     \* WebSocket clients
MaxFailCmds == 3    \* Commands submitted in one behaviour with outages
MaxHubCmds == 3     \* Commands submitted in one behaviour with the hubs running
MaxRelayCmds == 2   \* Commands submitted while clients stall and drop
MaxEvictCmds == 1   \* Commands submitted while clients drop
MaxOutageCmds == 2  \* Commands submitted while the subscriber meets outages
MaxStoreCmds == 3   \* Commands submitted while snapshots are taken
MaxSnapshots == 2   \* snapshot rows written in one behaviour
MaxRestartCmds == 2 \* Commands submitted around restarts
MaxDupCmds == 3     \* Commands submitted with producer-supplied ids
MaxAtomicCmds == 3  \* Commands submitted concurrently to the todo list and the flags
MaxNavCmds == 4     \* navigation Commands submitted in one behaviour
MaxIdemCmds == 4    \* Commands submitted in one behaviour with repeats
MaxPatches == 3     \* patches applied to State in one behaviour
MaxTimeoutCmds == 3 \* Commands submitted through the backend in one behaviour
MaxSnapCmds == 2    \* Commands submitted while snapshots are taken and read
MaxOpenCmds == 3    \* Commands submitted in one behaviour that opens apps by voice
MaxAliasSteps == 3  \* patches and writes after one to_dict() in one behaviour
MaxGnFrames == 4    \* camera frames in one behaviour that shows hands
MaxGestureFrames == 4 \* camera frames in one behaviour that shows gestures
MaxSyncFrames == 4  \* camera frames in one behaviour with the link failing

Tasks == 1..MaxTasks
Clients == 1..MaxClients

(***************************************************************************)
(* Python values.                                                          *)
(***************************************************************************)
\* dict.get(key, default); a payload is a function from keys to values
Get(d, k, default) == IF k \in DOMAIN d THEN d[k] ELSE default

\* the empty dict {}
EmptyDict == [k \in {} |-> "None"]

\* None, where the value is otherwise a string
None == "None"

\* str.startswith over the action strings the model submits: the actions
\* that begin with each prefix handle_command tests
PrefixTable ==
    [add_todo |-> {"add_todo", "add_todo_item"},
     set_mode |-> {"set_mode", "set_mode_voice"},
     gesture_ |-> {"gesture_", "gesture_swipe", "gesture_fist", "gesture_swipe_left"}]

startswith(a, prefix) == a \in PrefixTable[prefix]

(***************************************************************************)
(* arbiter.py: the app registry and the visible set.                       *)
(***************************************************************************)
APP_REGISTRY ==
    <<"home", "weather", "email", "finance", "news", "todos", "calendar", "settings">>

PrivateOnly == {"email", "finance"}

get_visible_apps(mode) ==
    IF mode = "public"
    THEN SelectSeq(APP_REGISTRY, LAMBDA app : app \notin PrivateOnly)
    ELSE APP_REGISTRY

Range(s) == {s[i] : i \in DOMAIN s}

\* a visibility test that looks at the registry and not at the mode
is_app_visible_any_mode(app_id, mode) == app_id \in Range(APP_REGISTRY)

is_app_visible(app_id, mode) == app_id \in Range(get_visible_apps(mode))

\* list.index: the first position of x in s, 0 when x is absent (ValueError)
IndexOf(s, x) ==
    IF x \in Range(s) THEN CHOOSE i \in DOMAIN s : s[i] = x /\ \A j \in 1..(i-1) : s[j] # x
    ELSE 0

\* a successor that stops at the end of the list instead of wrapping
get_next_app_no_wrap(current_app, mode) ==
    LET visible_apps == get_visible_apps(mode)
        current_idx == IndexOf(visible_apps, current_app)
    IN IF current_idx # 0
       THEN visible_apps[IF current_idx < Len(visible_apps) THEN current_idx + 1
                         ELSE current_idx]
       ELSE IF Len(visible_apps) > 0 THEN visible_apps[1] ELSE "home"

get_next_app(current_app, mode) ==
    LET visible_apps == get_visible_apps(mode)
        current_idx == IndexOf(visible_apps, current_app)
    IN IF current_idx # 0
       THEN visible_apps[(current_idx % Len(visible_apps)) + 1]
       ELSE IF Len(visible_apps) > 0 THEN visible_apps[1] ELSE "home"

get_prev_app(current_app, mode) ==
    LET visible_apps == get_visible_apps(mode)
        current_idx == IndexOf(visible_apps, current_app)
    IN IF current_idx # 0
       THEN visible_apps[((current_idx - 2) % Len(visible_apps)) + 1]
       ELSE IF Len(visible_apps) > 0 THEN visible_apps[Len(visible_apps)] ELSE "home"

(***************************************************************************)
(* state.py: State and its patch engine.  A path is held as the list of    *)
(* its segments, path.strip("/").split("/").                               *)
(***************************************************************************)
\* a fresh State with the defaults of the backend's empty reply
StateInit_ambient(now) ==
    [mode |-> "ambient",
     todos |-> <<>>,
     mic_enabled |-> FALSE,
     cam_enabled |-> FALSE,
     last_gesture |-> "idle",
     last_updated |-> now,
     ui_mode |-> "public",
     app_route |-> "home",
     focus_path |-> <<>>,
     gn_armed |-> FALSE,
     debug_enabled |-> FALSE,
     hud |-> [micOn |-> FALSE, camOn |-> FALSE, wsConnected |-> FALSE, wake |-> FALSE]]

StateInit(now) ==
    [mode |-> "idle",
     todos |-> <<>>,
     mic_enabled |-> FALSE,
     cam_enabled |-> FALSE,
     last_gesture |-> "idle",
     last_updated |-> now,
     ui_mode |-> "public",
     app_route |-> "home",
     focus_path |-> <<>>,
     gn_armed |-> FALSE,
     debug_enabled |-> FALSE,
     hud |-> [micOn |-> FALSE, camOn |-> FALSE, wsConnected |-> FALSE, wake |-> FALSE]]

\* the attributes setattr/getattr reach on a State instance
StateAttrs == DOMAIN StateInit(0)

ListAttrs == {"todos", "focus_path"}

DictAttrs == {"hud"}

\* str.isdigit and int() over the index segments the model uses
DigitValue == [i \in {"0", "1", "2", "3"} |->
                 CASE i = "0" -> 0 [] i = "1" -> 1 [] i = "2" -> 2 [] i = "3" -> 3]

\* characters such as superscript two, written here by code point: str.isdigit
\* accepts them, int() raises ValueError on them
SuperscriptDigits == {"U+00B2"}

isdigit(seg) == seg \in DOMAIN DigitValue \cup SuperscriptDigits

int_raises(seg) == seg \in SuperscriptDigits

int(seg) == DigitValue[seg]

\* isinstance(value, list), for the values the arbiter sends to /ui/focusPath
IsList(value) == value = <<>>

apply_patch(s, parts, value, now) ==
    IF Len(parts) >= 2 /\ parts[1] = "ui"
    THEN \* UI paths return before last_updated is touched
         CASE parts[2] = "mode" -> [s EXCEPT !.ui_mode = value]
           [] parts[2] = "appRoute" -> [s EXCEPT !.app_route = value]
           [] parts[2] = "focusPath" ->
                [s EXCEPT !.focus_path = IF IsList(value) THEN value ELSE <<>>]
           [] parts[2] = "gnArmed" -> [s EXCEPT !.gn_armed = value]
           [] parts[2] = "debug" /\ Len(parts) >= 3 ->
                IF parts[3] = "enabled" THEN [s EXCEPT !.debug_enabled = value] ELSE s
           [] parts[2] = "hud" /\ Len(parts) >= 3 ->
                IF parts[3] \in DOMAIN s.hud
                THEN [s EXCEPT !.hud = [s.hud EXCEPT ![parts[3]] = value]] ELSE s
           [] OTHER -> s
    ELSE LET t ==
               IF Len(parts) = 1
               THEN IF parts[1] \in StateAttrs THEN [s EXCEPT ![parts[1]] = value] ELSE s
               ELSE IF Len(parts) = 2 /\ parts[2] = "+"
               THEN IF parts[1] \in ListAttrs
                    THEN [s EXCEPT ![parts[1]] = Append(s[parts[1]], value)] ELSE s
               ELSE IF Len(parts) = 2
               THEN IF parts[1] \in ListAttrs /\ isdigit(parts[2])
                    THEN IF int(parts[2]) < Len(s[parts[1]])
                         THEN [s EXCEPT ![parts[1]] = [@ EXCEPT ![int(parts[2]) + 1] = value]]
                         ELSE s
                    ELSE IF parts[1] \in DictAttrs
                    THEN [s EXCEPT ![parts[1]] =
                            [k \in DOMAIN @ \cup {parts[2]} |-> IF k = parts[2] THEN value ELSE @[k]]]
                    ELSE s
               ELSE s
         IN [t EXCEPT !.last_updated = now]

\* apply_patch raises: int(parts[1]) on an index isdigit() let through, before
\* anything is assigned
apply_patch_raises(s, parts) ==
    /\ ~(Len(parts) >= 2 /\ parts[1] = "ui")
    /\ Len(parts) = 2
    /\ parts[2] # "+"
    /\ parts[1] \in ListAttrs
    /\ isdigit(parts[2])
    /\ int_raises(parts[2])

(***************************************************************************)
(* models/core.py: StatePatch and Event.                                   *)
(***************************************************************************)
StatePatch(ts, path, value) == [ts |-> ts, path |-> path, value |-> value]

Event(id, ts, commandId, type, payload) ==
    [id |-> id, ts |-> ts, commandId |-> commandId, type |-> type, payload |-> payload]

\* what a call that falls off the end of handle_command returns
NoneEvent == [type |-> "None"]

NoPatch == [path |-> <<>>]

(***************************************************************************)
(* arbiter.py: handle_command up to its first suspension point.  The       *)
(* result holds the State it leaves, where the call is suspended (pc), its *)
(* locals, and what it did so far (trace).  pc = "return" when the call    *)
(* ran to its end without suspending.                                      *)
(***************************************************************************)
private_code == "unlock"  \* Should be from env/config

\* a guard that refuses only a missing code
invalid_code_missing_only(new_mode, code) == new_mode = "private" /\ code = None

\* system.setMode: "if new_mode == 'private': if code != private_code" rejects
invalid_code(new_mode, code) == new_mode = "private" /\ code # private_code

\* the branches that build one patch, apply it, then persist and publish
PatchBranch(s, cmd, path, value, now) ==
    LET patch == StatePatch(cmd.ts, path, value)
    IN [s |-> apply_patch(s, patch.path, patch.value, now),
        pc |-> "persist",
        patch |-> patch,
        event |-> Event(cmd.id, cmd.ts, cmd.id, "state_patch", patch),
        trace |-> <<"mutate">>]

\* an acknowledge/reject branch that returns its Event without persisting it
EventBranchUnpersisted(s, cmd, type, payload) ==
    [s |-> s,
     pc |-> "return",
     patch |-> [path |-> <<>>],
     event |-> [id |-> cmd.id, ts |-> cmd.ts, commandId |-> cmd.id, type |-> type,
                payload |-> payload],
     trace |-> <<>>]

\* the branches that only acknowledge or reject
EventBranch(s, cmd, type, payload) ==
    [s |-> s,
     pc |-> "persist",
     patch |-> NoPatch,
     event |-> Event(cmd.id, cmd.ts, cmd.id, type, payload),
     trace |-> <<>>]

\* the branches that fall through: the call returns None
FallThrough(s) ==
    [s |-> s, pc |-> "return", patch |-> NoPatch, event |-> NoneEvent, trace |-> <<>>]

\* a re-dispatch that leaves id and ts to the defaults of Command: a fresh
\* id and the time of the re-dispatch
Redispatch_fresh(cmd, action) ==
    [id |-> <<"cmd", 0>>, ts |-> cmd.ts + 1, source |-> "voice", action |-> action,
     payload |-> EmptyDict]

\* the Command voice.nav re-dispatches
Redispatch(cmd, action) ==
    [id |-> cmd.id, ts |-> cmd.ts, source |-> "voice", action |-> action,
     payload |-> EmptyDict]

\* a redirect that forgets the email app
leaving_private_app_finance_only(s, new_mode) ==
    s.ui_mode = "private" /\ new_mode = "public" /\ s.app_route = "finance"

\* a redirect that tests for the mode being entered instead of the one left
leaving_private_app_entered(s, new_mode) ==
    s.ui_mode = "public" /\ new_mode = "public" /\ s.app_route \in {"email", "finance"}

\* system.setMode: switching from private to public while in a private app
leaving_private_app(s, new_mode) ==
    s.ui_mode = "private" /\ new_mode = "public" /\ s.app_route \in {"email", "finance"}

\* a todo id that does not look at the list
next_todo_id_first(todos) == 1

\* add_todo: "id": len(state.todos) + 1
next_todo_id(todos) == Len(todos) + 1

\* a toggle that only switches on
negation_on(flag) == TRUE

\* the toggles: new_state = not state.<flag>
negation(flag) == ~flag

RECURSIVE handle_command(_, _, _)
handle_command(s, cmd, now) ==
    CASE startswith(cmd.action, "add_todo") ->
           PatchBranch(s, cmd, <<"todos", "+">>,
                       [id |-> next_todo_id(s.todos),
                        text |-> Get(cmd.payload, "text", ""),
                        completed |-> FALSE,
                        created_at |-> cmd.ts], now)
      [] cmd.action = "toggle_mic" ->
           PatchBranch(s, cmd, <<"mic_enabled">>, negation(s.mic_enabled), now)
      [] cmd.action = "toggle_cam" ->
           PatchBranch(s, cmd, <<"cam_enabled">>, negation(s.cam_enabled), now)
      [] startswith(cmd.action, "set_mode") ->
           PatchBranch(s, cmd, <<"mode">>, Get(cmd.payload, "mode", "idle"), now)
      [] startswith(cmd.action, "gesture_") ->
           PatchBranch(s, cmd, <<"last_gesture">>, Get(cmd.payload, "gesture", "idle"), now)
      [] cmd.action = "set_gn_armed" ->
           PatchBranch(s, cmd, <<"ui", "gnArmed">>, Get(cmd.payload, "gnArmed", FALSE), now)
      [] cmd.action = "nav.nextApp" ->
           PatchBranch(s, cmd, <<"ui", "appRoute">>, get_next_app(s.app_route, s.ui_mode), now)
      [] cmd.action = "nav.prevApp" ->
           PatchBranch(s, cmd, <<"ui", "appRoute">>, get_prev_app(s.app_route, s.ui_mode), now)
      [] cmd.action = "nav.openAppFocused" ->
           PatchBranch(s, cmd, <<"ui", "focusPath">>, <<>>, now)
      [] cmd.action = "nav.backOrHome" ->
           IF s.app_route # "home"
           THEN PatchBranch(s, cmd, <<"ui", "appRoute">>, "home", now)
           ELSE FallThrough(s)
      [] cmd.action = "app.navigate" ->
           EventBranch(s, cmd, "accepted",
                       [action |-> cmd.action,
                        direction |-> Get(cmd.payload, "direction", "next")])
      [] cmd.action = "app.selectFocus" ->
           EventBranch(s, cmd, "accepted", [action |-> cmd.action])
      [] cmd.action = "app.quickActions" ->
           EventBranch(s, cmd, "accepted", [action |-> cmd.action])
      [] cmd.action = "voice.openApp" ->
           LET app_id == Get(cmd.payload, "app", None)
           IN IF app_id \notin {None, ""} /\ is_app_visible(app_id, s.ui_mode)
              THEN PatchBranch(s, cmd, <<"ui", "appRoute">>, app_id, now)
              ELSE FallThrough(s)
      [] cmd.action = "voice.nav" ->
           LET nav_action == Get(cmd.payload, "action", None)
           IN CASE nav_action = "next" ->
                     handle_command(s, Redispatch(cmd, "nav.nextApp"), now)
                [] nav_action \in {"prev", "previous"} ->
                     handle_command(s, Redispatch(cmd, "nav.prevApp"), now)
                [] nav_action = "back" ->
                     handle_command(s, Redispatch(cmd, "nav.backOrHome"), now)
                [] nav_action = "select" ->
                     handle_command(s, Redispatch(cmd, "app.selectFocus"), now)
                [] OTHER -> FallThrough(s)
      [] cmd.action = "system.toggleDebug" ->
           PatchBranch(s, cmd, <<"ui", "debug", "enabled">>, negation(s.debug_enabled), now)
      [] cmd.action = "system.setMode" ->
           LET new_mode == Get(cmd.payload, "mode", None)
               code == Get(cmd.payload, "code", None)
           IN IF invalid_code(new_mode, code)
              THEN EventBranch(s, cmd, "rejected",
                               [reason |-> "invalid_code", action |-> cmd.action])
              ELSE IF leaving_private_app(s, new_mode)
              THEN \* state.app_route = "home", then await publish_state(patch1)
                   [s |-> [s EXCEPT !.app_route = "home"],
                    pc |-> "publish1",
                    patch |-> StatePatch(cmd.ts, <<"ui", "appRoute">>, "home"),
                    event |-> NoneEvent,
                    trace |-> <<"assign">>]
              ELSE PatchBranch(s, cmd, <<"ui", "mode">>, new_mode, now)
      [] OTHER ->
           EventBranch(s, cmd, "rejected",
                       [reason |-> "unknown_action", action |-> cmd.action])

\* system.setMode resumed after publish_state(patch1): the mode patch
set_mode_resume(s, cmd, now) ==
    PatchBranch(s, cmd, <<"ui", "mode">>, Get(cmd.payload, "mode", None), now)

(***************************************************************************)
(* arbiter.py persist_event and bus.py publish_state: both catch every     *)
(* exception, so a failed write or publish changes nothing.                *)
(***************************************************************************)
\* an events table without a key on id
persist_event_no_key(table, e, up) == IF up THEN Append(table, e) ELSE table

\* INSERT INTO events: id is the PRIMARY KEY, so the insert of an id the
\* table holds fails, and the failure is swallowed like any other
persist_event(table, e, up) ==
    IF up /\ \A i \in DOMAIN table : table[i].id # e.id
    THEN Append(table, e)
    ELSE table

publish_state(log, patch, up) == IF up THEN Append(log, patch) ELSE log

(***************************************************************************)
(* main.py post_command: the answer to POST /command.  event.type on None  *)
(* raises AttributeError, and an exception that leaves handle_command      *)
(* propagates; the server turns either into a 500 response.                *)
(***************************************************************************)
\* how a call ends when an exception propagates out of handle_command
RaisedEvent == [type |-> "Raised"]

post_command(event) ==
    IF event.type \in {"None", "Raised"}
    THEN [code |-> 500]
    ELSE [code |-> 200, status |-> event.type, payload |-> event.payload,
          event_id |-> event.id]

(***************************************************************************)
(* The hubs: "cp" is control-plane/app/main.py, "be" is                    *)
(* backend/app/ws/state.py.  Each holds its own broker subscription.       *)
(***************************************************************************)
Hubs == {"cp", "be"}

\* what pubsub.listen() yields: a published patch, and the broker's
\* confirmation of a subscription
Message(patch) == [type |-> "message", data |-> patch]

SubscribeAck == [type |-> "subscribe"]

\* bus.py publish_state as the subscribers see it: the broker hands the
\* message to the hubs subscribed at that moment, and to nobody else
fan_out(queues, patch, up) ==
    [h \in Hubs |->
        IF up /\ hub[h].sub THEN Append(queues[h], Message(patch)) ELSE queues[h]]

(***************************************************************************)
(* The calls in flight.                                                    *)
(***************************************************************************)
IdleTask == [pc |-> "idle"]

InFlight == {t \in Tasks : tasks[t].pc # "idle"}

NoCall == [n |-> 0]

\* the locals of a call and what it has done so far
NewTask(r, cmd) ==
    [pc |-> r.pc, cmd |-> cmd, patch |-> r.patch, event |-> r.event, pre |-> state,
     pubs |-> <<>>, trace |-> r.trace, alone |-> InFlight = {},
     persisted |-> FALSE, dup |-> FALSE, dbErr |-> FALSE, busErr |-> FALSE,
     timedOut |-> FALSE]

\* the record kept of a call that returned ret, leaving State post
Returns(me, post, ret) ==
    [n |-> last.n + 1, cmd |-> me.cmd, pre |-> me.pre, post |-> post, ret |-> ret,
     resp |-> post_command(ret), pubs |-> me.pubs, trace |-> me.trace,
     alone |-> me.alone, persisted |-> me.persisted, dup |-> me.dup,
     dbErr |-> me.dbErr, busErr |-> me.busErr, timedOut |-> me.timedOut]

\* a Command as Ingress hands it to the arbiter
Command(id, ts, shape) ==
    [id |-> id, ts |-> ts, source |-> shape.source, action |-> shape.action,
     payload |-> shape.payload]

\* the calls that were in flight when another Command arrived did not run alone
Overlapped(tk) ==
    [u \in Tasks |-> IF u \in InFlight THEN [tk[u] EXCEPT !.alone = FALSE] ELSE tk[u]]

\* POST /command: handle_command runs up to its first suspension point.
\* Time has passed since the previous Command: the clock has advanced.
Submit(t, shape, id) ==
    /\ started < MaxCmds
    /\ tasks[t].pc = "idle"
    /\ \A u \in Tasks : u < t => tasks[u].pc # "idle"
    /\ clock' = clock + 1
    /\ LET cmd == Command(id, clock', shape)
           r == handle_command(state, cmd, clock')
           me == NewTask(r, cmd)
       IN /\ state' = r.s
          /\ IF r.pc = "return"
             THEN /\ last' = Returns(me, r.s, r.event)
                  /\ tasks' = Overlapped(tasks)
             ELSE /\ last' = last
                  /\ tasks' = [Overlapped(tasks) EXCEPT ![t] = me]
          /\ IF InFlight = {}
             THEN base' = state /\ batch' = <<cmd>>
             ELSE base' = base /\ batch' = Append(batch, cmd)
    /\ started' = started + 1
    /\ UNCHANGED <<events, published, envVars, hubVars>>

\* a publish_state that lets the connection error out
publish_raises_when_down(up) == ~up

\* bus.py publish_state: "except Exception" swallows every error
publish_raises(up) == FALSE

\* a persist_event that lets the database error out
persist_raises_when_down(up) == ~up

\* arbiter.py persist_event: "except Exception" swallows every error
persist_raises(up) == FALSE

\* an exception leaves the call: it ends without an Event
Abort(t) ==
    /\ tasks' = [tasks EXCEPT ![t] = IdleTask]
    /\ last' = Returns([tasks[t] EXCEPT !.dbErr = @ \/ ~dbUp, !.busErr = @ \/ ~brokerUp],
                       state, RaisedEvent)

\* system.setMode: publish_state(patch1) completes, the call goes on to
\* build and apply the mode patch and suspends in persist_event
PublishRedirect(t) ==
    /\ tasks[t].pc = "publish1"
    /\ published' = publish_state(published, tasks[t].patch, brokerUp)
    /\ chan' = fan_out(chan, tasks[t].patch, brokerUp)
    /\ IF publish_raises(brokerUp)
       THEN Abort(t) /\ state' = state
       ELSE LET r == set_mode_resume(state, tasks[t].cmd, clock)
            IN /\ state' = r.s
               /\ last' = last
               /\ tasks' = [tasks EXCEPT ![t] =
                              [@ EXCEPT !.pc = r.pc, !.patch = r.patch, !.event = r.event,
                                        !.pubs = publish_state(@, tasks[t].patch, brokerUp),
                                        !.busErr = @ \/ ~brokerUp,
                                        !.trace = @ \o <<"publish">> \o r.trace]]
    /\ UNCHANGED <<clock, events, started, base, batch, envVars,
                   clients, conn, frames, hub>>

\* persist_event(event) completes; a call without a patch returns the Event
PersistEvent(t) ==
    /\ tasks[t].pc = "persist"
    /\ events' = persist_event(events, tasks[t].event, dbUp)
    /\ IF persist_raises(dbUp)
       THEN Abort(t)
       ELSE LET me == [tasks[t] EXCEPT !.trace = Append(@, "persist"),
                                       !.persisted = events' # events,
                                       !.dup = \E i \in DOMAIN events :
                                                   events[i].id = tasks[t].event.id,
                                       !.dbErr = ~dbUp]
            IN IF me.event.type = "state_patch"
               THEN /\ tasks' = [tasks EXCEPT ![t] = [me EXCEPT !.pc = "publish"]]
                    /\ last' = last
               ELSE /\ tasks' = [tasks EXCEPT ![t] = IdleTask]
                    /\ last' = Returns(me, state, me.event)
    /\ UNCHANGED <<state, clock, published, started, base, batch, envVars, hubVars>>

\* publish_state(patch) completes and the call returns the Event
PublishState(t) ==
    /\ tasks[t].pc = "publish"
    /\ published' = publish_state(published, tasks[t].patch, brokerUp)
    /\ chan' = fan_out(chan, tasks[t].patch, brokerUp)
    /\ IF publish_raises(brokerUp)
       THEN Abort(t)
       ELSE LET me == [tasks[t] EXCEPT !.pubs = publish_state(@, tasks[t].patch, brokerUp),
                                       !.busErr = @ \/ ~brokerUp,
                                       !.trace = Append(@, "publish")]
            IN /\ tasks' = [tasks EXCEPT ![t] = IdleTask]
               /\ last' = Returns(me, state, me.event)
    /\ UNCHANGED <<state, clock, events, started, base, batch, envVars,
                   clients, conn, frames, hub>>

Resume ==
    \E t \in Tasks : PublishRedirect(t) \/ PersistEvent(t) \/ PublishState(t)

\* backend api/command.py send_command: the POST to the control plane has
\* timeout=5.0; when the control plane has not answered by then (the event
\* store or the broker is slow) httpx raises and the producer is answered
\* 503.  The handle_command call goes on in the control plane
IngressTimeout(t) ==
    /\ tasks[t].pc \in {"persist", "publish", "publish1"}
    /\ ~tasks[t].timedOut
    /\ tasks' = [tasks EXCEPT ![t].timedOut = TRUE]
    /\ UNCHANGED <<state, clock, events, published, last, started, base, batch,
                   envVars, hubVars>>

\* the same for the Commands other than system.setMode, whose calls are
\* suspended in persist_event and in one publish_state only
ResumePlain ==
    \E t \in Tasks : PersistEvent(t) \/ PublishState(t)

(***************************************************************************)
(* The environment: the event store and the broker fail and recover.       *)
(***************************************************************************)
StoreOutage ==
    /\ dbUp' = ~dbUp
    /\ UNCHANGED <<arbVars, brokerUp, snapshots, worker, hubVars>>

\* a broker that goes down takes the subscriptions with it, and the
\* messages not yet handed to a subscriber; pubsub.listen() of a hub that
\* was subscribed raises the next time the hub waits in it (err)
BrokerOutage ==
    /\ brokerUp' = ~brokerUp
    /\ hub' = [h \in Hubs |->
                 IF brokerUp THEN [hub[h] EXCEPT !.sub = FALSE, !.err = hub[h].sub \/ @]
                 ELSE hub[h]]
    /\ chan' = IF brokerUp THEN [h \in Hubs |-> <<>>] ELSE chan
    /\ UNCHANGED <<arbVars, dbUp, snapshots, worker, clients, conn, frames>>

(***************************************************************************)
(* state.py State.to_dict and the WebSocket endpoints.                     *)
(***************************************************************************)
to_dict(s) ==
    [mode |-> s.mode,
     todos |-> s.todos,
     mic_enabled |-> s.mic_enabled,
     cam_enabled |-> s.cam_enabled,
     last_gesture |-> s.last_gesture,
     last_updated |-> s.last_updated,
     ui |-> [mode |-> s.ui_mode,
             appRoute |-> s.app_route,
             focusPath |-> s.focus_path,
             gnArmed |-> s.gn_armed,
             debug |-> [enabled |-> s.debug_enabled],
             hud |-> s.hud]]

(***************************************************************************)
(* arbiter.py save_snapshot, main.py snapshot_saver and the start of the   *)
(* process.                                                                *)
(***************************************************************************)
\* INSERT INTO snapshots (ts, state): the id is AUTOINCREMENT; "except
\* Exception" swallows a failed write.  logged is the number of rows the
\* events table holds at that moment
save_snapshot(rows, s, now, logged, up) ==
    IF up
    THEN Append(rows, [id |-> Len(rows) + 1, ts |-> now, state |-> to_dict(s),
                       logged |-> logged])
    ELSE rows

\* what GET /api/v1/state answers while the table is empty
EmptyReply == [mode |-> "ambient", todos |-> <<>>, gesture |-> "idle"]

\* a read that takes the row with the smallest id
get_state_oldest(rows) ==
    IF rows = <<>> THEN EmptyReply
    ELSE LET top == CHOOSE i \in DOMAIN rows :
                        \A j \in DOMAIN rows : rows[j].id >= rows[i].id
         IN rows[top].state

\* backend api/command.py get_state:
\* SELECT state FROM snapshots ORDER BY id DESC LIMIT 1
get_state(rows) ==
    IF rows = <<>> THEN EmptyReply
    ELSE LET top == CHOOSE i \in DOMAIN rows :
                        \A j \in DOMAIN rows : rows[j].id <= rows[i].id
         IN rows[top].state

\* snapshot_saver wakes up (every 60 s) and saves a snapshot
SaveSnapshot ==
    /\ Len(snapshots) < MaxSnapshots
    /\ snapshots' = save_snapshot(snapshots, state, clock, Len(events), dbUp)
    /\ UNCHANGED <<arbVars, dbUp, brokerUp, worker, hubVars>>

\* the control plane stops and starts again: the module-level
\* "state = State()" runs, lifespan calls init_db() and starts the workers.
\* The calls that were in flight are gone; the tables are on disk
Restart ==
    /\ state' = StateInit(clock)
    /\ tasks' = [t \in Tasks |-> IdleTask]
    /\ base' = StateInit(clock)
    /\ batch' = <<>>
    /\ UNCHANGED <<clock, events, published, last, started, envVars, hubVars>>

NoConn == [st |-> "none", hub |-> "none"]

\* main.py ws_state sends {"type": "initial_state", "data": state.to_dict()}
\* right after accept; backend ws/state.py state_websocket sends nothing
first_frames(h, s) ==
    IF h = "cp" THEN <<[type |-> "initial_state", data |-> to_dict(s)]>> ELSE <<>>

\* /ws/state of hub h accepts client c: the client joins the set and, in the
\* same step, the endpoint starts its first send
WsConnect(c, h) ==
    /\ conn[c].st = "none"
    /\ \A d \in Clients : d < c => conn[d].st # "none"
    /\ conn' = [conn EXCEPT ![c] = [st |-> "open", hub |-> h]]
    /\ clients' = [clients EXCEPT ![h] = @ \cup {c}]
    /\ frames' = [frames EXCEPT ![c] = @ \o first_frames(h, state)]
    /\ UNCHANGED <<arbVars, envVars, chan, hub>>

\* the client stops reading: its connection stays up, a send to it waits
WsStall(c) ==
    /\ conn[c].st = "open"
    /\ conn' = [conn EXCEPT ![c].st = "slow"]
    /\ UNCHANGED <<arbVars, envVars, chan, clients, frames, hub>>

\* the client reads again
WsReads(c) ==
    /\ conn[c].st = "slow"
    /\ conn' = [conn EXCEPT ![c].st = "open"]
    /\ UNCHANGED <<arbVars, envVars, chan, clients, frames, hub>>

\* the client's connection breaks; the endpoint has not noticed yet
WsDrop(c) ==
    /\ conn[c].st \in {"open", "slow"}
    /\ conn' = [conn EXCEPT ![c].st = "dead"]
    /\ UNCHANGED <<arbVars, envVars, chan, clients, frames, hub>>

\* receive_text raises WebSocketDisconnect: "finally: clients.discard(websocket)"
WsCleanup(c) ==
    /\ conn[c].st = "dead"
    /\ conn' = [conn EXCEPT ![c].st = "closed"]
    /\ clients' = [clients EXCEPT ![conn[c].hub] = @ \ {c}]
    /\ UNCHANGED <<arbVars, envVars, chan, frames, hub>>

(***************************************************************************)
(* bus.py subscribe with main.py broadcast_to_clients ("cp"), and          *)
(* ws/state.py redis_subscriber ("be").  client.send_json writes the frame *)
(* when it is called and then waits until the connection has taken it:     *)
(* each call is a suspension point of the broadcast loop.                  *)
(***************************************************************************)
\* the subscriber task before its first subscription.  msg, audience and
\* failed keep what the latest broadcast handled, whom it was for and whose
\* send raised
Listening(sub) ==
    [sub |-> sub, err |-> FALSE, pc |-> "listen", msg |-> NoPatch, rest |-> {}, n0 |-> 0,
     disconnected |-> {}, cur |-> 0, audience |-> {}, failed |-> {}]

HubInit == [h \in Hubs |-> Listening(FALSE)]

\* the subscriber connects and subscribes to the channel; the broker
\* confirms the subscription on the same connection
Subscribe(h) ==
    /\ ~hub[h].sub
    /\ ~hub[h].err
    /\ hub[h].pc = "listen"
    /\ brokerUp
    /\ hub' = [hub EXCEPT ![h].sub = TRUE]
    /\ chan' = [chan EXCEPT ![h] = Append(@, SubscribeAck)]
    /\ UNCHANGED <<arbVars, envVars, clients, conn, frames>>

\* a send that raises whatever the state of the connection
send_fails_always(c) == TRUE

\* send_json raises on a connection that is broken or closed
send_fails(c) == conn[c].st \notin {"open", "slow"}

\* the send the loop is suspended in has ended in an exception: the client
\* stopped reading, then its connection broke
PendingFailed(h) == hub[h].cur # 0 /\ send_fails(hub[h].cur)

\* the loop is suspended in a send to a client that does not read
Blocked(h) ==
    hub[h].pc = "send" /\ hub[h].cur # 0 /\ conn[hub[h].cur].st = "slow"

\* the loop after the send it was suspended in has returned or raised:
\* "cp" notes a failed client in disconnected, "be" discards it at once
Resumed(h) ==
    [hub |-> [hub[h] EXCEPT
                 !.cur = 0,
                 !.failed = IF PendingFailed(h) THEN @ \cup {hub[h].cur} ELSE @,
                 !.disconnected =
                     IF h = "cp" /\ PendingFailed(h) THEN @ \cup {hub[h].cur} ELSE @],
     clients |-> IF h = "be" /\ PendingFailed(h)
                 THEN [clients EXCEPT ![h] = @ \ {hub[h].cur}]
                 ELSE clients]

\* "await client.send_json(patch)" is called for client c, from the loop
\* position r
Call(h, c, r) ==
    /\ frames' = IF send_fails(c) THEN frames
                 ELSE [frames EXCEPT ![c] = Append(@, r.hub.msg)]
    /\ hub' = [hub EXCEPT ![h] =
                 [r.hub EXCEPT
                     !.pc = "send",
                     !.rest = @ \ {c},
                     !.cur = IF conn[c].st = "slow" THEN c ELSE 0,
                     !.failed = IF send_fails(c) THEN @ \cup {c} ELSE @,
                     !.disconnected =
                         IF h = "cp" /\ send_fails(c) THEN @ \cup {c} ELSE @]]
    /\ clients' = IF h = "be" /\ send_fails(c)
                  THEN [r.clients EXCEPT ![h] = @ \ {c}]
                  ELSE r.clients

\* pubsub.listen() yields the next message.  Only a message of type
\* "message" is broadcast; the loop starts over the client set ("cp": the
\* live set; "be": list(clients), a copy) and calls the first send
Receive(h) ==
    /\ hub[h].pc = "listen"
    /\ chan[h] # <<>>
    /\ chan' = [chan EXCEPT ![h] = Tail(@)]
    /\ LET msg == Head(chan[h])
       IN IF msg.type # "message"
          THEN UNCHANGED <<hub, clients, frames>>
          ELSE LET begun == [hub[h] EXCEPT !.msg = msg.data,
                                           !.rest = clients[h],
                                           !.n0 = Cardinality(clients[h]),
                                           !.disconnected = {},
                                           !.audience = clients[h],
                                           !.failed = {}]
               IN IF clients[h] = {}
                  THEN hub' = [hub EXCEPT ![h] = begun] /\ UNCHANGED <<clients, frames>>
                  ELSE \E c \in clients[h] :
                          Call(h, c, [hub |-> begun, clients |-> clients])
    /\ UNCHANGED <<arbVars, envVars, conn>>

\* "cp" iterates the live set: a set whose size changed since the loop began
\* makes the iterator raise RuntimeError, which subscribe() catches and logs
SetChanged(h) == h = "cp" /\ Cardinality(clients[h]) # hub[h].n0

\* the next turn of the loop: the iterator yields c and send_json is called
Send(h, c) ==
    /\ hub[h].pc = "send"
    /\ ~Blocked(h)
    /\ ~SetChanged(h)
    /\ c \in hub[h].rest
    /\ Call(h, c, Resumed(h))
    /\ UNCHANGED <<arbVars, envVars, chan, conn>>

\* the loop ends: the iterator is exhausted and "cp" drops the clients whose
\* send failed, or the iterator of "cp" raises and nothing is dropped
EndBroadcast(h) ==
    /\ hub[h].pc = "send"
    /\ ~Blocked(h)
    /\ hub[h].rest = {} \/ SetChanged(h)
    /\ LET r == Resumed(h)
       IN /\ hub' = [hub EXCEPT ![h] =
                        [r.hub EXCEPT !.pc = "listen", !.rest = {}, !.disconnected = {}]]
          /\ clients' = IF h = "cp" /\ ~SetChanged(h)
                        THEN [r.clients EXCEPT ![h] = @ \ r.hub.disconnected]
                        ELSE r.clients
    /\ UNCHANGED <<arbVars, envVars, chan, conn, frames>>

\* pubsub.listen() raises in a hub whose subscription was lost.  bus.py
\* subscribe catches it, sleeps 5 s and subscribes again; in ws/state.py the
\* handler of the listen loop ends in "break", which leaves "while True"
ListenError(h) ==
    /\ hub[h].pc = "listen"
    /\ hub[h].err
    /\ hub' = [hub EXCEPT ![h].err = FALSE,
                          ![h].pc = IF h = "be" THEN "ended" ELSE "listen"]
    /\ UNCHANGED <<arbVars, envVars, chan, clients, conn, frames>>

(***************************************************************************)
(* The Commands the producers submit.                                      *)
(***************************************************************************)
Shape(source, action, payload) ==
    [source |-> source, action |-> action, payload |-> payload]

\* privacy mode, navigation and one Command of each outcome
SeqShapes ==
    {Shape("system", "system.setMode", [mode |-> "private", code |-> "unlock"]),
     Shape("system", "system.setMode", [mode |-> "private", code |-> "wrong"]),
     Shape("system", "system.setMode", [mode |-> "private"]),
     Shape("voice", "system.setMode", [mode |-> "public"]),
     Shape("system", "system.setMode", [mode |-> "kiosk"]),
     Shape("voice", "voice.openApp", [app |-> "email"]),
     Shape("voice", "voice.openApp", [app |-> "weather"]),
     Shape("gesture", "nav.backOrHome", EmptyDict),
     Shape("gesture", "nav.nextApp", EmptyDict),
     Shape("system", "unknown_action", EmptyDict),
     Shape("gesture", "toggle_mic", EmptyDict),
     Shape("voice", "add_todo", [text |-> "Buy milk"])}

\* the Commands whose handling can overlap in a way that matters
ConcShapes ==
    {Shape("system", "system.setMode", [mode |-> "private", code |-> "unlock"]),
     Shape("voice", "system.setMode", [mode |-> "public"]),
     Shape("voice", "voice.openApp", [app |-> "email"]),
     Shape("gesture", "nav.nextApp", EmptyDict)}

\* one Command of each kind of handling: one patch, two patches, no patch
FailShapes ==
    {Shape("system", "system.setMode", [mode |-> "private", code |-> "unlock"]),
     Shape("voice", "system.setMode", [mode |-> "public"]),
     Shape("voice", "voice.openApp", [app |-> "email"]),
     Shape("voice", "add_todo", [text |-> "Buy milk"]),
     Shape("gesture", "toggle_mic", EmptyDict),
     Shape("system", "unknown_action", EmptyDict)}

\* the Commands that lead to the two-patch mode change
HubShapes ==
    {Shape("system", "system.setMode", [mode |-> "private", code |-> "unlock"]),
     Shape("voice", "system.setMode", [mode |-> "public"]),
     Shape("voice", "voice.openApp", [app |-> "email"])}

\* the Commands of the fan-out scenario: a todo, then a toggle
RelayShapes ==
    {Shape("voice", "add_todo", [text |-> "Buy milk"]),
     Shape("gesture", "toggle_mic", EmptyDict)}

\* two Commands that change State and one that is rejected
DupShapes ==
    {Shape("gesture", "toggle_mic", EmptyDict),
     Shape("voice", "add_todo", [text |-> "Buy milk"]),
     Shape("system", "unknown_action", EmptyDict)}

\* the Commands that act on the todo list and on the three flags
AtomicShapes ==
    {Shape("voice", "add_todo", [text |-> "Buy milk"]),
     Shape("voice", "add_todo_item", EmptyDict),
     Shape("gesture", "toggle_mic", EmptyDict),
     Shape("gesture", "toggle_cam", EmptyDict),
     Shape("system", "system.toggleDebug", EmptyDict)}

\* navigation by gesture and by voice, and the Commands that change what
\* is visible
NavShapes ==
    {Shape("gesture", "nav.nextApp", EmptyDict),
     Shape("gesture", "nav.prevApp", EmptyDict),
     Shape("voice", "voice.nav", [action |-> "next"]),
     Shape("voice", "voice.nav", [action |-> "prev"]),
     Shape("voice", "voice.nav", [action |-> "previous"]),
     Shape("voice", "voice.nav", [action |-> "back"]),
     Shape("voice", "voice.nav", [action |-> "select"]),
     Shape("system", "system.setMode", [mode |-> "private", code |-> "unlock"]),
     Shape("system", "system.setMode", [mode |-> "kiosk"]),
     Shape("voice", "system.setMode", [mode |-> "public"]),
     Shape("voice", "voice.openApp", [app |-> "email"])}

\* voice.openApp with an app of each kind, and the two mode changes
OpenShapes ==
    {Shape("system", "system.setMode", [mode |-> "private", code |-> "unlock"]),
     Shape("voice", "system.setMode", [mode |-> "public"]),
     Shape("voice", "voice.openApp", [app |-> "email"]),
     Shape("voice", "voice.openApp", [app |-> "weather"]),
     Shape("voice", "voice.openApp", [app |-> "bogus"]),
     Shape("voice", "voice.openApp", [app |-> ""]),
     Shape("voice", "voice.openApp", EmptyDict)}

\* one Command of each policy that sets a value, navigates or acknowledges
IdemShapes ==
    {Shape("voice", "set_mode", [mode |-> "voice"]),
     Shape("gesture", "gesture_swipe", [gesture |-> "swipe"]),
     Shape("system", "set_gn_armed", [gnArmed |-> TRUE]),
     Shape("gesture", "nav.nextApp", EmptyDict),
     Shape("gesture", "nav.prevApp", EmptyDict),
     Shape("gesture", "nav.openAppFocused", EmptyDict),
     Shape("gesture", "nav.backOrHome", EmptyDict),
     Shape("gesture", "app.navigate", [direction |-> "prev"]),
     Shape("voice", "voice.nav", [action |-> "next"]),
     Shape("voice", "voice.nav", [action |-> "back"]),
     Shape("voice", "voice.openApp", [app |-> "email"]),
     Shape("system", "system.setMode", [mode |-> "private", code |-> "unlock"]),
     Shape("voice", "system.setMode", [mode |-> "public"])}

\* Command ids generated by Ingress (uuid4): a fresh id per Command
FreshId == <<"cmd", started + 1>>

\* Command.id as a producer may set it: an id it has used before
SuppliedIds == {<<"cmd", 1>>}

(***************************************************************************)
(* gesture-worker: config.py, hand_tracker.py HandTracker,                 *)
(* gesture_classifier.py compute_gn_armed, gesture_worker.py process_frame *)
(* and publisher.py.  Times are in milliseconds.  What the vision pipeline *)
(* sees in a frame (the hands, their poses, the gesture) is the input of   *)
(* the frame.                                                              *)
(***************************************************************************)
GN_STEADY_MS == 250
GN_HYSTERESIS_MS == 120
COMMAND_COOLDOWN_DURATION == 500

\* time.time() when the worker starts: far from 0, to which prev_gn_time,
\* last_command_time and pose_start_time are initialised
StartTime == 1000

\* HandTracker(): pose "unknown", pose_start_time 0.0
HandTracker == [pose |-> "unknown", pose_start_time |-> 0]

\* update_pose: the pose's start moves only when the pose changes
update_pose(tracker, new_pose, current_time) ==
    IF new_pose # tracker.pose
    THEN [pose |-> new_pose, pose_start_time |-> current_time]
    ELSE tracker

get_steady_ms(tracker, current_time) ==
    IF tracker.pose_start_time = 0 THEN 0 ELSE current_time - tracker.pose_start_time

\* the first hand of hands_data that is open and steady, 0 when there is none
steady_hand(hands_data) ==
    LET hits == {i \in DOMAIN hands_data :
                    hands_data[i].pose = "open" /\ hands_data[i].steadyMs >= GN_STEADY_MS}
    IN IF hits = {} THEN 0 ELSE CHOOSE i \in hits : \A j \in hits : i <= j

\* the first hand that is not the steady one and has a known pose
other_hand(hands_data) ==
    LET hits == {i \in DOMAIN hands_data :
                    i # steady_hand(hands_data) /\ hands_data[i].pose # "unknown"}
    IN IF hits = {} THEN 0 ELSE CHOOSE i \in hits : \A j \in hits : i <= j

compute_gn_armed(hands_data, current_time, prev_gn_armed, prev_gn_time) ==
    LET steady == steady_hand(hands_data)
        other == other_hand(hands_data)
        late == IF prev_gn_armed
                THEN current_time - prev_gn_time < GN_HYSTERESIS_MS
                ELSE FALSE
    IN IF steady # 0 /\ other # 0
       THEN IF ~prev_gn_armed
            THEN IF hands_data[steady].steadyMs >= GN_STEADY_MS THEN TRUE ELSE late
            ELSE ~(hands_data[steady].steadyMs < GN_STEADY_MS - GN_HYSTERESIS_MS)
       ELSE late

\* GestureWorker.__init__ and the link to the control plane.  sent lists
\* the POSTs of the publisher, lost is the time of the frame at which the
\* arming condition stopped holding while GN was armed (-1: it holds, or GN
\* was not armed)
WorkerInit ==
    [now |-> StartTime, n |-> 0, link |-> TRUE,
     hand_trackers |-> <<>>, hands_data |-> <<>>,
     gn_armed |-> FALSE, prev_gn_armed |-> FALSE, prev_gn_time |-> 0,
     last_gesture |-> "idle", last_command_time |-> 0,
     sent |-> <<>>, lost |-> 0 - 1,
     reached |-> FALSE]

\* the hands the pipeline reports in a frame, in its order, and their poses
Detected ==
    [two |-> <<[id |-> "left", pose |-> "open"], [id |-> "right", pose |-> "fist"]>>,
     one |-> <<[id |-> "left", pose |-> "open"]>>,
     none |-> <<>>]

\* hand_trackers after the loop over the detected hands
Tracked(trackers, detected, current_time) ==
    LET known == {trackers[i].id : i \in DOMAIN trackers}
        fresh == SelectSeq(detected, LAMBDA h : h.id \notin known)
        all == trackers \o [i \in DOMAIN fresh |->
                               [id |-> fresh[i].id, tracker |-> HandTracker]]
    IN [i \in DOMAIN all |->
          IF \E k \in DOMAIN detected : detected[k].id = all[i].id
          THEN LET k == CHOOSE k \in DOMAIN detected : detected[k].id = all[i].id
               IN [all[i] EXCEPT
                      !.tracker = update_pose(@, detected[k].pose, current_time)]
          ELSE all[i]]

\* hands_data: the detected hands with their steady time, then the hands
\* that have a tracker and were not detected, marked unknown
HandsData(trackers, detected, current_time) ==
    LET seen == {detected[k].id : k \in DOMAIN detected}
        tracker_of(id) ==
            trackers[CHOOSE i \in DOMAIN trackers : trackers[i].id = id].tracker
        missing == SelectSeq(trackers, LAMBDA t : t.id \notin seen)
    IN [k \in DOMAIN detected |->
          [id |-> detected[k].id, pose |-> detected[k].pose,
           steadyMs |-> get_steady_ms(tracker_of(detected[k].id), current_time)]]
       \o [i \in DOMAIN missing |->
             [id |-> missing[i].id, pose |-> "unknown", steadyMs |-> 0]]

\* the control plane after POST /command with this Command has been
\* answered: the publisher awaits the response.  Both Commands the worker
\* sends take a branch that applies one patch, persists and publishes
Post(cp, shape) ==
    LET cmd == Command(<<"cmd", cp.started + 1>>, cp.clock + 1, shape)
        r == handle_command(cp.state, cmd, cp.clock + 1)
    IN [state |-> r.s, clock |-> cp.clock + 1, started |-> cp.started + 1,
        events |-> persist_event(cp.events, r.event, dbUp),
        published |-> publish_state(cp.published, r.patch, brokerUp),
        chan |-> fan_out(cp.chan, r.patch, brokerUp)]

\* a send of the publisher (send_gn_armed_state, send_command): the POST
\* reaches the control plane only over a working link; an error is logged
\* and nothing else happens
Sent(cp, shape, link) == IF link THEN Post(cp, shape) ELSE cp

\* a command decision that forgets the cooldown
cooldown_expired_always(current_time, last_command_time) == TRUE

\* "time_since_last_command > self.cooldown_duration"
cooldown_expired(current_time, last_command_time) ==
    current_time - last_command_time > COMMAND_COOLDOWN_DURATION

\* process_frame for the frame read gap ms after the previous one
Frame(gap, detected, gesture) ==
    \E t \in {worker.now + gap} :
    \E trackers \in {Tracked(worker.hand_trackers, detected, t)} :
    \E hands_data \in {HandsData(trackers, detected, t)} :
    \E gn_armed \in {compute_gn_armed(hands_data, t, worker.prev_gn_armed,
                                      worker.prev_gn_time)} :
    LET changed == gn_armed # worker.prev_gn_armed
        commands == /\ gesture # worker.last_gesture
                    /\ gesture # "idle"
                    /\ cooldown_expired(t, worker.last_command_time)
        gn_shape == Shape("gesture", "set_gn_armed", [gnArmed |-> gn_armed])
        cmd_shape == Shape("gesture", "gesture_" \o gesture,
                           [gesture |-> gesture, gnArmed |-> gn_armed])
        cp0 == [state |-> state, clock |-> clock, started |-> started,
                events |-> events, published |-> published, chan |-> chan]
        cp1 == IF changed THEN Sent(cp0, gn_shape, worker.link) ELSE cp0
        cp2 == IF commands THEN Sent(cp1, cmd_shape, worker.link) ELSE cp1
        holds == steady_hand(hands_data) # 0 /\ other_hand(hands_data) # 0
    IN /\ worker' =
             [worker EXCEPT
                 !.now = t,
                 !.n = @ + 1,
                 !.hand_trackers = trackers,
                 !.hands_data = hands_data,
                 !.gn_armed = gn_armed,
                 !.prev_gn_armed = gn_armed,
                 !.prev_gn_time = IF changed THEN t ELSE @,
                 !.last_command_time = IF commands THEN t ELSE @,
                 !.last_gesture = gesture,
                 !.sent = @ \o (IF changed
                                THEN <<[action |-> "set_gn_armed", gnArmed |-> gn_armed,
                                        at |-> t, ok |-> worker.link]>>
                                ELSE <<>>)
                          \o (IF commands
                              THEN <<[action |-> "gesture_" \o gesture, gnArmed |-> gn_armed,
                                      at |-> t, ok |-> worker.link]>>
                              ELSE <<>>),
                 !.lost = IF holds THEN 0 - 1
                          ELSE IF @ < 0 /\ worker.gn_armed THEN t ELSE @,
                 !.reached = worker.link]
       /\ \E cp \in {cp2} :
             /\ state' = cp.state
             /\ clock' = cp.clock
             /\ started' = cp.started
             /\ events' = cp.events
             /\ published' = cp.published
             /\ chan' = cp.chan
       /\ UNCHANGED <<tasks, last, base, batch, dbUp, brokerUp, snapshots,
                      clients, conn, frames, hub>>

\* the control plane stops answering the worker, or answers again
LinkOutage ==
    /\ worker' = [worker EXCEPT !.link = ~@]
    /\ UNCHANGED <<arbVars, dbUp, brokerUp, snapshots, hubVars>>

Init ==
    /\ clock = 0
    /\ state = StateInit(0)
    /\ events = <<>>
    /\ published = <<>>
    /\ tasks = [t \in Tasks |-> IdleTask]
    /\ last = NoCall
    /\ started = 0
    /\ base = StateInit(0)
    /\ batch = <<>>
    /\ dbUp = TRUE
    /\ brokerUp = TRUE
    /\ chan = [h \in Hubs |-> <<>>]
    /\ clients = [h \in Hubs |-> {}]
    /\ conn = [c \in Clients |-> NoConn]
    /\ frames = [c \in Clients |-> <<>>]
    /\ hub = HubInit
    /\ snapshots = <<>>
    /\ worker = WorkerInit

(***************************************************************************)
(* Spec: Commands handled one after the other (each POST /command is       *)
(* answered before the next arrives), event store and broker healthy.      *)
(***************************************************************************)
SubmitSeq ==
    /\ InFlight = {}
    /\ \E sh \in SeqShapes : Submit(1, sh, FreshId)

Next == SubmitSeq \/ Resume

Spec == Init /\ [][Next]_vars

(***************************************************************************)
(* SpecConc: Commands arrive while earlier calls are suspended.            *)
(***************************************************************************)
SubmitConc ==
    \E t \in Tasks, sh \in ConcShapes : Submit(t, sh, FreshId)

NextConc == SubmitConc \/ Resume

SpecConc == Init /\ [][NextConc]_vars

(***************************************************************************)
(* SpecFail: Commands handled one after the other while the event store    *)
(* and the broker fail and recover at any moment.                          *)
(***************************************************************************)
SubmitFail ==
    /\ InFlight = {}
    /\ started < MaxFailCmds
    /\ \E sh \in FailShapes : Submit(1, sh, FreshId)

NextFail == SubmitFail \/ Resume \/ StoreOutage \/ BrokerOutage

SpecFail == Init /\ [][NextFail]_vars

(***************************************************************************)
(* SpecHub: Commands handled one after the other while the control plane's *)
(* hub relays the broker's messages and clients connect at any moment.     *)
(***************************************************************************)
SubmitHub ==
    /\ InFlight = {}
    /\ started < MaxHubCmds
    /\ \E sh \in HubShapes : Submit(1, sh, FreshId)

HubStep(h) ==
    \/ Subscribe(h)
    \/ Receive(h)
    \/ EndBroadcast(h)
    \/ \E c \in Clients : Send(h, c) \/ WsConnect(c, h)

NextHub == SubmitHub \/ Resume \/ HubStep("cp")

SpecHub == Init /\ [][NextHub]_vars

(***************************************************************************)
(* SpecBackend: the same with the backend's hub (ws/state.py) in place of  *)
(* the control plane's.                                                    *)
(***************************************************************************)
NextBackend == SubmitHub \/ Resume \/ HubStep("be")

SpecBackend == Init /\ [][NextBackend]_vars

(***************************************************************************)
(* SpecRelay: the control plane's hub relays while clients connect, stop   *)
(* reading, read again and lose their connection at any moment.            *)
(***************************************************************************)
SubmitRelay ==
    /\ InFlight = {}
    /\ started < MaxRelayCmds
    /\ \E sh \in RelayShapes : Submit(1, sh, FreshId)

ClientStep(c, h) ==
    \/ WsConnect(c, h)
    \/ WsStall(c)
    \/ WsReads(c)
    \/ WsDrop(c)
    \/ WsCleanup(c)

\* the steps the broadcast loop of hub h takes on its own
Broadcast(h) ==
    \/ EndBroadcast(h)
    \/ \E c \in Clients : Send(h, c)

NextRelay ==
    \/ SubmitRelay
    \/ ResumePlain
    \/ Subscribe("cp")
    \/ Receive("cp")
    \/ Broadcast("cp")
    \/ \E c \in Clients : ClientStep(c, "cp")

SpecRelay == Init /\ [][NextRelay]_vars

(***************************************************************************)
(* SpecEvict: the control plane's hub relays while clients connect and     *)
(* lose their connection at any moment.                                    *)
(***************************************************************************)
SubmitEvict ==
    /\ InFlight = {}
    /\ started < MaxEvictCmds
    /\ \E sh \in RelayShapes : Submit(1, sh, FreshId)

NextEvict ==
    \/ SubmitEvict
    \/ ResumePlain
    \/ Subscribe("cp")
    \/ Receive("cp")
    \/ Broadcast("cp")
    \/ \E c \in Clients : WsConnect(c, "cp") \/ WsDrop(c) \/ WsCleanup(c)

SpecEvict == Init /\ [][NextEvict]_vars

(***************************************************************************)
(* SpecOutage: the backend's hub relays while the broker fails and         *)
(* recovers at any moment.                                                 *)
(***************************************************************************)
SubmitOutage ==
    /\ InFlight = {}
    /\ started < MaxOutageCmds
    /\ \E sh \in RelayShapes : Submit(1, sh, FreshId)

NextOutage ==
    \/ SubmitOutage
    \/ ResumePlain
    \/ BrokerOutage
    \/ ListenError("be")
    \/ HubStep("be")

SpecOutage == Init /\ [][NextOutage]_vars

(***************************************************************************)
(* SpecStore: Commands handled one after the other while the snapshot      *)
(* saver runs.                                                             *)
(***************************************************************************)
SubmitStore ==
    /\ InFlight = {}
    /\ started < MaxStoreCmds
    /\ \E sh \in HubShapes : Submit(1, sh, FreshId)

NextStore == SubmitStore \/ Resume \/ SaveSnapshot

SpecStore == Init /\ [][NextStore]_vars

(***************************************************************************)
(* SpecRestart: the same, with the process stopping and starting again at  *)
(* any moment.                                                             *)
(***************************************************************************)
SubmitRestart ==
    /\ InFlight = {}
    /\ started < MaxRestartCmds
    /\ \E sh \in RelayShapes : Submit(1, sh, FreshId)

NextRestart == SubmitRestart \/ ResumePlain \/ SaveSnapshot \/ Restart

SpecRestart == Init /\ [][NextRestart]_vars

(***************************************************************************)
(* SpecDup: Commands handled one after the other, some with an id the      *)
(* producer chose.                                                         *)
(***************************************************************************)
SubmitDup ==
    /\ InFlight = {}
    /\ started < MaxDupCmds
    /\ \E sh \in DupShapes, id \in SuppliedIds \cup {FreshId} : Submit(1, sh, id)

NextDup == SubmitDup \/ ResumePlain

SpecDup == Init /\ [][NextDup]_vars

(***************************************************************************)
(* SpecAtomic: todo and toggle Commands arrive while earlier calls are     *)
(* suspended.                                                              *)
(***************************************************************************)
SubmitAtomic ==
    /\ started < MaxAtomicCmds
    /\ \E t \in Tasks, sh \in AtomicShapes : Submit(t, sh, FreshId)

NextAtomic == SubmitAtomic \/ ResumePlain

SpecAtomic == Init /\ [][NextAtomic]_vars

(***************************************************************************)
(* SpecNav: navigation Commands handled one after the other.               *)
(***************************************************************************)
SubmitNav ==
    /\ InFlight = {}
    /\ started < MaxNavCmds
    /\ \E sh \in NavShapes : Submit(1, sh, FreshId)

NextNav == SubmitNav \/ Resume

SpecNav == Init /\ [][NextNav]_vars

(***************************************************************************)
(* SpecIdem: Commands of every policy handled one after the other, the     *)
(* same Command more than once.                                            *)
(***************************************************************************)
SubmitIdem ==
    /\ InFlight = {}
    /\ started < MaxIdemCmds
    /\ \E sh \in IdemShapes : Submit(1, sh, FreshId)

NextIdem == SubmitIdem \/ Resume

SpecIdem == Init /\ [][NextIdem]_vars

(***************************************************************************)
(* SpecPatch: State.apply_patch called with paths of every form, one call  *)
(* after the other, on the State the calls before left.                    *)
(***************************************************************************)
Todo(id, text) == [id |-> id, text |-> text, completed |-> FALSE, created_at |-> 0]

\* path (as its segments) and value of each call
PatchInputs ==
    <<[parts |-> <<"mode">>, value |-> "voice"],
      [parts |-> <<"mic_enabled">>, value |-> TRUE],
      [parts |-> <<"last_updated">>, value |-> 0],
      [parts |-> <<"todos", "+">>, value |-> Todo(1, "Test")],
      [parts |-> <<"todos", "0">>, value |-> Todo(1, "Edited")],
      [parts |-> <<"focus_path", "+">>, value |-> "rail"],
      [parts |-> <<"hud", "micOn">>, value |-> TRUE],
      [parts |-> <<"ui", "mode">>, value |-> "private"],
      [parts |-> <<"ui", "appRoute">>, value |-> "news"],
      [parts |-> <<"ui", "focusPath">>, value |-> <<>>],
      [parts |-> <<"ui", "gnArmed">>, value |-> TRUE],
      [parts |-> <<"ui", "debug", "enabled">>, value |-> TRUE],
      [parts |-> <<"ui", "hud", "camOn">>, value |-> TRUE],
      [parts |-> <<"nosuch">>, value |-> "x"],
      [parts |-> <<"ui", "nosuch">>, value |-> "x"],
      [parts |-> <<"ui", "hud", "nosuch">>, value |-> TRUE],
      [parts |-> <<"todos", "0", "text">>, value |-> "x"],
      [parts |-> <<"ui", "mode", "extra">>, value |-> "private"],
      [parts |-> <<"">>, value |-> "x"],
      [parts |-> <<"todos", "x">>, value |-> Todo(2, "x")],
      [parts |-> <<"todos", "3">>, value |-> Todo(2, "x")],
      [parts |-> <<"todos", "U+00B2">>, value |-> Todo(2, "x")],
      [parts |-> <<"mode", "+">>, value |-> "x"]>>

\* state.apply_patch(path, value) is called at a later time than the call
\* before it; a call that raises has assigned nothing
ApplyPatch ==
    /\ last.n < MaxPatches
    /\ \E i \in DOMAIN PatchInputs :
          LET in == PatchInputs[i]
              raised == apply_patch_raises(state, in.parts)
          IN /\ clock' = clock + 1
             /\ state' = IF raised THEN state
                         ELSE apply_patch(state, in.parts, in.value, clock')
             /\ last' = [n |-> last.n + 1, input |-> i, pre |-> state, post |-> state',
                         now |-> clock', raised |-> raised]
    /\ UNCHANGED <<events, published, tasks, started, base, batch, envVars, hubVars>>

NextPatch == ApplyPatch

SpecPatch == Init /\ [][NextPatch]_vars

(***************************************************************************)
(* SpecTimeout: Commands sent through the backend's /api/v1/command, one   *)
(* after the other, where the wait for the control plane may time out.     *)
(***************************************************************************)
SubmitTimeout ==
    /\ InFlight = {}
    /\ started < MaxTimeoutCmds
    /\ \E sh \in FailShapes : Submit(1, sh, FreshId)

NextTimeout == SubmitTimeout \/ Resume \/ \E t \in Tasks : IngressTimeout(t)

SpecTimeout == Init /\ [][NextTimeout]_vars

(***************************************************************************)
(* SpecSnap: Commands handled one after the other while the snapshot saver *)
(* runs, the event store fails and recovers, and the process restarts.     *)
(***************************************************************************)
SubmitSnap ==
    /\ InFlight = {}
    /\ started < MaxSnapCmds
    /\ \E sh \in RelayShapes : Submit(1, sh, FreshId)

NextSnap == SubmitSnap \/ ResumePlain \/ SaveSnapshot \/ StoreOutage \/ Restart

SpecSnap == Init /\ [][NextSnap]_vars

(***************************************************************************)
(* SpecAlias: a caller reads State through to_dict() and keeps the dict    *)
(* while patches are applied and while it writes to what it was given.     *)
(* to_dict() puts self.todos, self.focus_path and self.hud themselves into *)
(* the dict: each stays the object the attribute is bound to until a patch *)
(* binds the attribute to another object.                                  *)
(***************************************************************************)
\* the attributes whose object to_dict() returns
ReturnedObjects == {"todos", "focus_path", "hud"}

\* the attribute a patch binds to a new object: setattr on a top-level path
\* and "self.focus_path = ..." do; append, attr[idx] = and self.hud[k] =
\* write into the object in place
Rebinds(parts) ==
    IF Len(parts) >= 2 /\ parts[1] = "ui"
    THEN IF parts[2] = "focusPath" THEN {"focus_path"} ELSE {}
    ELSE IF Len(parts) = 1 /\ parts[1] \in StateAttrs THEN {parts[1]} ELSE {}

\* the patches applied while the dict is held
AliasInputs ==
    <<[parts |-> <<"todos", "+">>, value |-> Todo(1, "Test")],
      [parts |-> <<"todos">>, value |-> <<>>],
      [parts |-> <<"mic_enabled">>, value |-> TRUE],
      [parts |-> <<"ui", "focusPath">>, value |-> <<>>],
      [parts |-> <<"ui", "hud", "micOn">>, value |-> TRUE]>>

\* what the objects of the dict hold, as the holder sees them
Held(s) == [a \in ReturnedObjects |-> s[a]]

\* to_dict() is called: the caller holds the three objects
ReadState ==
    /\ last.n = 0
    /\ last' = [n |-> 1, by |-> "read", own |-> Held(state), live |-> ReturnedObjects]
    /\ UNCHANGED <<state, clock, events, published, tasks, started, base, batch,
                   envVars, hubVars>>

\* state.apply_patch(path, value) is called while the dict is held
ApplyHeld ==
    /\ last.n \in 1..MaxAliasSteps
    /\ \E i \in DOMAIN AliasInputs :
          LET in == AliasInputs[i]
              live == last.live \ Rebinds(in.parts)
          IN /\ clock' = clock + 1
             /\ state' = apply_patch(state, in.parts, in.value, clock')
             /\ last' = [n |-> last.n + 1, by |-> "apply",
                         own |-> [a \in ReturnedObjects |->
                                    IF a \in live THEN state'[a] ELSE last.own[a]],
                         live |-> live]
    /\ UNCHANGED <<events, published, tasks, started, base, batch, envVars, hubVars>>

\* what the holder writes into one of the objects it was given
HolderWrites(own) ==
    {[own EXCEPT !.todos = Append(@, Todo(9, "Mine"))],
     [own EXCEPT !.focus_path = Append(@, "rail")],
     [own EXCEPT !.hud = [@ EXCEPT !.wake = TRUE]]}

\* the holder writes into an object of the dict: an object State is still
\* bound to is State's
WriteHeld ==
    /\ last.n \in 1..MaxAliasSteps
    /\ \E own \in HolderWrites(last.own) :
          /\ own # last.own
          /\ last' = [last EXCEPT !.n = @ + 1, !.by = "holder", !.own = own]
          /\ state' = [a \in StateAttrs |->
                         IF a \in last.live THEN own[a] ELSE state[a]]
    /\ UNCHANGED <<clock, events, published, tasks, started, base, batch,
                   envVars, hubVars>>

NextAlias == ReadState \/ ApplyHeld \/ WriteHeld

SpecAlias == Init /\ [][NextAlias]_vars

(***************************************************************************)
(* SpecOpen: voice.openApp Commands handled one after the other, in public *)
(* and in private mode.                                                    *)
(***************************************************************************)
SubmitOpen ==
    /\ InFlight = {}
    /\ started < MaxOpenCmds
    /\ \E sh \in OpenShapes : Submit(1, sh, FreshId)

NextOpen == SubmitOpen \/ Resume

SpecOpen == Init /\ [][NextOpen]_vars

(***************************************************************************)
(* SpecGn: the worker sees frames with two hands, one hand and none.       *)
(***************************************************************************)
GnFrame ==
    /\ worker.n < MaxGnFrames
    /\ \E gap \in {50, 250}, hands \in DOMAIN Detected :
          Frame(gap, Detected[hands], "idle")

SpecGn == Init /\ [][GnFrame]_vars

(***************************************************************************)
(* SpecGesture: the worker sees frames with gestures while its link to the *)
(* control plane fails and recovers.                                       *)
(***************************************************************************)
GestureFrame ==
    /\ worker.n < MaxGestureFrames
    /\ \E gap \in {100, 500, 600}, gesture \in {"idle", "fist", "swipe_left"} :
          Frame(gap, Detected.none, gesture)

NextGesture == GestureFrame \/ LinkOutage

SpecGesture == Init /\ [][NextGesture]_vars

(***************************************************************************)
(* SpecSync: GN arms and disarms while the link fails and recovers; the    *)
(* camera keeps delivering frames.                                         *)
(***************************************************************************)
SyncFrame ==
    /\ worker.n < MaxSyncFrames
    /\ \E hands \in DOMAIN Detected : Frame(250, Detected[hands], "idle")

NextSync == SyncFrame \/ LinkOutage

SpecSync == Init /\ [][NextSync]_vars /\ WF_vars(SyncFrame)

(***************************************************************************)
(* Properties.                                                             *)
(***************************************************************************)
Returned == last.n > 0

\* a call's own steps in the order the ordering rule prescribes:
\* mutations, then persist, then publishes
Ordered(trace) ==
    \A i, j \in DOMAIN trace :
        i < j => /\ ~(trace[i] = "persist" /\ trace[j] \in {"mutate", "assign"})
                 /\ ~(trace[i] = "publish" /\ trace[j] \in {"mutate", "assign", "persist"})

\* handle_command run alone from State s, to its return
Run(s, cmd) ==
    LET r == handle_command(s, cmd, clock)
    IN IF r.pc = "publish1" THEN set_mode_resume(r.s, cmd, clock).s ELSE r.s

\* equal States, last_updated aside
SameState(a, b) == [a EXCEPT !.last_updated = 0] = [b EXCEPT !.last_updated = 0]

\* equal patches and equal Events, compared field by field
SamePatch(a, b) == a.path = b.path /\ a.ts = b.ts /\ a.value = b.value

SameEvent(a, b) ==
    /\ a.id = b.id
    /\ a.ts = b.ts
    /\ a.commandId = b.commandId
    /\ a.type = b.type
    /\ IF a.type = "state_patch" THEN SamePatch(a.payload, b.payload)
       ELSE a.payload = b.payload

\* the Event is a row of the events table
Stored(e) == \E i \in DOMAIN events : SameEvent(events[i], e)

\* C1: whenever no handle_command call is in progress, ui.appRoute is in the
\* visible-app set of the current ui.mode
C1_RouteVisible ==
    InFlight = {} => is_app_visible(state.app_route, state.ui_mode)

\* C2: when two Commands whose handling overlapped have both returned, State
\* equals the State that handling them one after the other, in one of the
\* two orders, produces from the State they started from
C2_Serialisable ==
    (InFlight = {} /\ Len(batch) = 2) =>
        \/ SameState(state, Run(Run(base, batch[1]), batch[2]))
        \/ SameState(state, Run(Run(base, batch[2]), batch[1]))

\* C3: in every handle_command call, in flight or returned, every State
\* mutation precedes the persist of the Event and the persist precedes every
\* publish of the call
C3_MutatePersistPublish ==
    /\ \A t \in InFlight : Ordered(tasks[t].trace)
    /\ Returned => Ordered(last.trace)

\* C4: every handle_command call returns an Event of type accepted, rejected
\* or state_patch whose commandId and ts are the Command's, and POST /command
\* answers with that Event's type, payload and id
C4_ReturnsEvent ==
    Returned =>
        /\ last.ret.type \in {"accepted", "rejected", "state_patch"}
        /\ last.ret.commandId = last.cmd.id
        /\ last.ret.ts = last.cmd.ts
        /\ last.resp = [code |-> 200, status |-> last.ret.type,
                        payload |-> last.ret.payload, event_id |-> last.ret.id]

\* C6: system.setMode to private with a code other than the configured one
\* returns rejected{invalid_code, system.setMode}, leaves State as it was and
\* publishes nothing; with the configured code it leaves ui.mode private and
\* returns a state_patch Event
C6_SetModePrivate ==
    (Returned /\ last.cmd.action = "system.setMode"
              /\ Get(last.cmd.payload, "mode", None) = "private") =>
        IF Get(last.cmd.payload, "code", None) # "unlock"
        THEN /\ last.ret.type = "rejected"
             /\ last.ret.payload = [reason |-> "invalid_code", action |-> "system.setMode"]
             /\ last.post = last.pre
             /\ last.pubs = <<>>
        ELSE /\ last.ret.type = "state_patch"
             /\ last.ret.payload.path = <<"ui", "mode">>
             /\ last.ret.payload.value = "private"
             /\ last.post.ui_mode = "private"
             /\ last.pubs = <<last.ret.payload>>

\* a wrong code was refused while the mirror was in private mode (a correct
\* code had been accepted before) and State held more than the defaults
C6_Witness ==
    /\ Returned
    /\ last.cmd.action = "system.setMode"
    /\ Get(last.cmd.payload, "code", None) = "wrong"
    /\ last.ret.type = "rejected"
    /\ last.pre.ui_mode = "private"
    /\ last.pre.app_route = "email"
    /\ last.post = last.pre

\* C7: a Command whose action matches no policy returns
\* rejected{unknown_action, action}, leaves State as it was, publishes nothing,
\* and its rejected Event is a row of the events table
C7_UnknownRejected ==
    (Returned /\ last.cmd.action = "unknown_action") =>
        /\ last.ret.type = "rejected"
        /\ last.ret.payload = [reason |-> "unknown_action", action |-> last.cmd.action]
        /\ last.ret.commandId = last.cmd.id
        /\ last.post = last.pre
        /\ last.pubs = <<>>
        /\ Stored(last.ret)

\* an unknown action was rejected in a State that differs from the defaults
C7_Witness ==
    /\ Returned
    /\ last.cmd.action = "unknown_action"
    /\ last.ret.type = "rejected"
    /\ last.pre.mic_enabled
    /\ Len(events) >= 2
    /\ SameEvent(events[Len(events)], last.ret)

\* the two patches of a system.setMode that leaves a private app
HomePatch(ts) == StatePatch(ts, <<"ui", "appRoute">>, "home")

PublicPatch(ts) == StatePatch(ts, <<"ui", "mode">>, "public")

IsPatch(f) == "path" \in DOMAIN f

\* the last returned call is a system.setMode to public handled in private
\* mode on email or finance
LeftPrivateApp ==
    /\ Returned
    /\ last.cmd.action = "system.setMode"
    /\ Get(last.cmd.payload, "mode", None) = "public"
    /\ last.pre.ui_mode = "private"
    /\ last.pre.app_route \in {"email", "finance"}

\* C5: system.setMode to public, handled in private mode on email or finance,
\* publishes exactly /ui/appRoute <- home then /ui/mode <- public; the broker
\* holds them in that order, no client receives the mode patch before the
\* route patch, State ends public on home and the Event carries the mode patch
C5_TwoPatchesInOrder ==
    /\ LeftPrivateApp =>
          /\ last.pubs = <<HomePatch(last.cmd.ts), PublicPatch(last.cmd.ts)>>
          /\ \E i \in 1..(Len(published) - 1) :
                /\ SamePatch(published[i], HomePatch(last.cmd.ts))
                /\ SamePatch(published[i + 1], PublicPatch(last.cmd.ts))
          /\ last.post.ui_mode = "public"
          /\ last.post.app_route = "home"
          /\ last.ret.type = "state_patch"
          /\ last.ret.commandId = last.cmd.id
          /\ last.ret.payload = PublicPatch(last.cmd.ts)
    /\ \A c \in Clients : \A i, j \in DOMAIN frames[c] :
          (i < j /\ IsPatch(frames[c][i]) /\ IsPatch(frames[c][j])) =>
              ~(\E ts \in 1..clock : /\ SamePatch(frames[c][i], PublicPatch(ts))
                                     /\ SamePatch(frames[c][j], HomePatch(ts)))

\* the mode change was handled and a connected client has received both
\* patches, the route patch right before the mode patch
C5_Witness ==
    /\ LeftPrivateApp
    /\ \E c \in Clients : \E i \in 1..(Len(frames[c]) - 1) :
          /\ IsPatch(frames[c][i])
          /\ SamePatch(frames[c][i], HomePatch(last.cmd.ts))
          /\ SamePatch(frames[c][i + 1], PublicPatch(last.cmd.ts))

\* C8: a call whose persist_event met a failing event store has still applied
\* its patch to State, has still published it (it is on the broker when the
\* broker is up) and has returned its Event with a normal answer
C8_PersistFailureTolerated ==
    (Returned /\ last.dbErr) =>
        /\ last.resp.code = 200
        /\ last.ret.type \in {"accepted", "rejected", "state_patch"}
        /\ last.ret.commandId = last.cmd.id
        /\ \A i \in DOMAIN events : events[i].id # last.ret.id
        /\ SameState(last.post, Run(last.pre, last.cmd))
        /\ last.ret.type = "state_patch" =>
              /\ last.trace[Len(last.trace)] = "publish"
              /\ ~last.busErr =>
                    /\ last.pubs # <<>>
                    /\ SamePatch(last.pubs[Len(last.pubs)], last.ret.payload)
                    /\ \E i \in DOMAIN published :
                          SamePatch(published[i], last.ret.payload)

\* a patch was applied, published and answered although its Event was lost
C8_Witness ==
    /\ Returned
    /\ last.dbErr
    /\ ~last.busErr
    /\ last.ret.type = "state_patch"
    /\ last.pubs = <<last.ret.payload>>
    /\ last.post # last.pre
    /\ last.post.mic_enabled

\* C9: a call whose publish_state met a broker outage has still mutated
\* State, has still persisted its Event (it is in the table when the store
\* is up) and has returned its Event with a normal answer
C9_PublishFailureTolerated ==
    (Returned /\ last.busErr) =>
        /\ last.resp.code = 200
        /\ last.ret.type = "state_patch"
        /\ last.ret.commandId = last.cmd.id
        /\ SameState(last.post, Run(last.pre, last.cmd))
        /\ ~last.dbErr => Stored(last.ret)

\* during one outage two Commands were handled: both mutated State and both
\* Events are in the table, none reached the broker
C9_Witness ==
    /\ Returned
    /\ last.busErr
    /\ ~last.dbErr
    /\ last.n >= 2
    /\ Len(events) >= 2
    /\ SameEvent(events[Len(events)], last.ret)
    /\ published = <<>>
    /\ last.post # last.pre

\* C10: the first frame a client receives on /ws/state is initial_state, and
\* it receives no second one: no patch frame comes before it
C10_InitialStateFirst ==
    \A c \in Clients :
        frames[c] # <<>> =>
            /\ ~IsPatch(frames[c][1])
            /\ frames[c][1].type = "initial_state"
            /\ \A i \in 2..Len(frames[c]) : IsPatch(frames[c][i])

(***************************************************************************)
(* The hubs' relay.                                                        *)
(***************************************************************************)
\* the hub has finished (or abandoned) the broadcast of a patch
Broadcast_done(h) == hub[h].pc = "listen" /\ hub[h].msg.path # <<>>

\* the client is connected and in the hub's subscriber set
Subscribed(c, h) == c \in clients[h] /\ conn[c].st \in {"open", "slow"}

\* patch p is one of the frames sent to client c
HasFrame(c, p) ==
    \E i \in DOMAIN frames[c] : IsPatch(frames[c][i]) /\ SamePatch(frames[c][i], p)

\* the place of a patch in the order the broker accepted the patches
PubIndex(p) == CHOOSE k \in DOMAIN published : SamePatch(published[k], p)

\* C11: once the hub has handled a patch the broker delivered, every client
\* that was in the subscriber set when the hub took the patch, and still is,
\* has been sent it; a client is sent patches in broker delivery order,
\* each once; and every frame is initial_state or a published patch: the
\* broker's subscribe confirmation produces no frame
C11_RelaysEveryPatch ==
    /\ \A h \in Hubs :
          Broadcast_done(h) =>
              \A c \in hub[h].audience : Subscribed(c, h) => HasFrame(c, hub[h].msg)
    /\ \A c \in Clients : \A i \in DOMAIN frames[c] :
          IF IsPatch(frames[c][i])
          THEN \E k \in DOMAIN published : SamePatch(published[k], frames[c][i])
          ELSE frames[c][i].type = "initial_state"
    /\ \A c \in Clients : \A i, j \in DOMAIN frames[c] :
          (i < j /\ IsPatch(frames[c][i]) /\ IsPatch(frames[c][j])) =>
              PubIndex(frames[c][i]) < PubIndex(frames[c][j])

\* C12: once the hub has handled a patch, every client whose send failed is
\* out of the subscriber set, and every other client that was in the set
\* and still is has been sent that patch
C12_FailedClientDropped ==
    \A h \in Hubs :
        (Broadcast_done(h) /\ hub[h].failed # {}) =>
            /\ \A c \in hub[h].failed : c \notin clients[h]
            /\ \A d \in hub[h].audience \ hub[h].failed :
                  Subscribed(d, h) => HasFrame(d, hub[h].msg)

\* C13: a broadcast in progress can always take its next step on its own:
\* a send that does not complete is ended by the hub, which evicts the
\* client and goes on to the others
C13_SlowClientNeverBlocks ==
    hub["cp"].pc = "send" => ENABLED Broadcast("cp")

\* C14: no client is connected while it is out of the subscriber set of its
\* hub: a client the hub has dropped has no connection any more
C14_DroppedClientsDisconnected ==
    \A c \in Clients :
        conn[c].st \in {"open", "slow"} => c \in clients[conn[c].hub]

\* the hub has dropped a client whose send failed, before the client's own
\* endpoint noticed the broken connection, and the patch went to the other
C14_Witness ==
    /\ Broadcast_done("cp")
    /\ \E c \in hub["cp"].failed :
          /\ c \notin clients["cp"]
          /\ conn[c].st = "dead"
          /\ \E d \in Clients \ {c} : Subscribed(d, "cp") /\ HasFrame(d, hub["cp"].msg)

\* C15: the subscriber task of a hub never ends: after an error it is back
\* waiting to subscribe again
C15_SubscriberRunsForever ==
    \A h \in Hubs : hub[h].pc # "ended"

(***************************************************************************)
(* Snapshots and the event log.                                            *)
(***************************************************************************)
\* the state a start of the process is to load: that of the latest
\* snapshot row, the defaults when there is none
LatestSnapshot ==
    IF snapshots = <<>> THEN to_dict(StateInit(0))
    ELSE snapshots[Len(snapshots)].state

\* equal serialised states, last_updated aside
SameDict(a, b) == [a EXCEPT !.last_updated = 0] = [b EXCEPT !.last_updated = 0]

\* C16: every start of the process leaves State equal to the state stored
\* in the latest snapshot row, and to the defaults when there is no row
C16_StartupLoadsSnapshot ==
    [][Restart => SameDict(to_dict(state'), LatestSnapshot)]_vars

\* a State loaded from a serialised state
from_dict(d) ==
    [mode |-> d.mode,
     todos |-> d.todos,
     mic_enabled |-> d.mic_enabled,
     cam_enabled |-> d.cam_enabled,
     last_gesture |-> d.last_gesture,
     last_updated |-> d.last_updated,
     ui_mode |-> d.ui.mode,
     app_route |-> d.ui.appRoute,
     focus_path |-> d.ui.focusPath,
     gn_armed |-> d.ui.gnArmed,
     debug_enabled |-> d.ui.debug.enabled,
     hud |-> d.ui.hud]

\* State s after the patches of the state_patch Events in rows i.. of the
\* events table have been applied to it, in log order
RECURSIVE Replay(_, _)
Replay(s, i) ==
    IF i > Len(events) THEN s
    ELSE Replay(IF events[i].type = "state_patch"
                THEN apply_patch(s, events[i].payload.path, events[i].payload.value, clock)
                ELSE s,
                i + 1)

\* the latest snapshot with the log's tail replayed onto it
Replayed ==
    IF snapshots = <<>> THEN Replay(StateInit(0), 1)
    ELSE Replay(from_dict(snapshots[Len(snapshots)].state),
                snapshots[Len(snapshots)].logged + 1)

\* C17: whenever no handle_command call is in progress, the latest snapshot
\* with the patches of the state_patch Events logged after it applied in
\* log order equals the running State, last_updated aside
C17_ReplayEqualsState ==
    InFlight = {} => SameState(state, Replayed)

\* C18: appending an Event whose id the events table holds changes
\* nothing: no id is in the table twice, the call goes on and returns its
\* Event as if the append had worked, and appending an Event twice leaves
\* the table as appending it once does
C18_DuplicateIdNoOp ==
    /\ \A i, j \in DOMAIN events : i # j => events[i].id # events[j].id
    /\ (Returned /\ last.dup) =>
          /\ ~last.persisted
          /\ last.resp.code = 200
          /\ last.ret.commandId = last.cmd.id
          /\ SameState(last.post, Run(last.pre, last.cmd))
          /\ last.ret.type = "state_patch" => last.pubs = <<last.ret.payload>>
    /\ \A t \in InFlight :
          tasks[t].pc = "persist" =>
              LET e == tasks[t].event
                  once == persist_event(events, e, dbUp)
              IN /\ Len(persist_event(once, e, dbUp)) = Len(once)
                 /\ (\E i \in DOMAIN events : events[i].id = e.id) =>
                        /\ Len(once) = Len(events)
                        /\ \A i \in DOMAIN events : SameEvent(once[i], events[i])

\* a Command reused the id of an earlier one: its Event was not appended,
\* the row of the earlier Event is still there, and the call returned
C18_Witness ==
    /\ Returned
    /\ last.dup
    /\ ~last.persisted
    /\ last.ret.type = "state_patch"
    /\ last.post.mic_enabled # last.pre.mic_enabled
    /\ \E i \in DOMAIN events :
          /\ events[i].id = last.ret.id
          /\ events[i].type = "rejected"

(***************************************************************************)
(* The todo list and the flags under concurrent Commands.                  *)
(***************************************************************************)
\* the patches on a path among those the broker accepted
PublishedOn(path) == {k \in DOMAIN published : published[k].path = path}

\* the element an add_todo* Command appends to a list of the given length
TodoOf(cmd, length) ==
    [id |-> length + 1,
     text |-> Get(cmd.payload, "text", ""),
     completed |-> FALSE,
     created_at |-> cmd.ts]

\* C19: the ids of todos are pairwise distinct (the element at place i has
\* id i), todos is in the order the add_todo patches were applied, it holds
\* one element per add_todo* Command handled, and the element a Command
\* appended is {id: previous length + 1, text, completed: false,
\* created_at: cmd.ts}, still at that place when the call returns
C19_TodosUniqueOrdered ==
    /\ \A i, j \in DOMAIN state.todos :
          i < j => /\ state.todos[i].id # state.todos[j].id
                   /\ state.todos[i].created_at < state.todos[j].created_at
    /\ \A i \in DOMAIN state.todos : state.todos[i].id = i
    /\ Len(state.todos) =
          Cardinality(PublishedOn(<<"todos", "+">>))
          + Cardinality({t \in InFlight : tasks[t].patch.path = <<"todos", "+">>})
    /\ (Returned /\ startswith(last.cmd.action, "add_todo")) =>
          LET k == Len(last.pre.todos) + 1
          IN /\ last.ret.type = "state_patch"
             /\ last.ret.payload.path = <<"todos", "+">>
             /\ last.ret.payload.value = TodoOf(last.cmd, Len(last.pre.todos))
             /\ Len(last.post.todos) >= k
             /\ last.post.todos[k] = TodoOf(last.cmd, Len(last.pre.todos))

\* two add_todo* Commands were handled while each other's call was
\* suspended; both elements are in the list
C19_Witness ==
    /\ Returned
    /\ InFlight = {}
    /\ startswith(last.cmd.action, "add_todo")
    /\ ~last.alone
    /\ Len(batch) >= 2
    /\ Len(state.todos) >= 2
    /\ state.todos[1].text # state.todos[2].text

ToggleActions == {"toggle_mic", "toggle_cam", "system.toggleDebug"}

\* the path a toggle patches and the flag it reads
TogglePath(a) ==
    CASE a = "toggle_mic" -> <<"mic_enabled">>
      [] a = "toggle_cam" -> <<"cam_enabled">>
      [] a = "system.toggleDebug" -> <<"ui", "debug", "enabled">>

Flag(s, a) ==
    CASE a = "toggle_mic" -> s.mic_enabled
      [] a = "toggle_cam" -> s.cam_enabled
      [] a = "system.toggleDebug" -> s.debug_enabled

\* the overlapping Commands were two toggles of the same flag
TwoToggles ==
    /\ InFlight = {}
    /\ Len(batch) = 2
    /\ batch[1].action = batch[2].action
    /\ batch[1].action \in ToggleActions

\* C20: a toggle returns a state_patch Event whose patch carries the
\* negation of the flag as it was when the Command was handled, and
\* publishes that one patch; when no call is in flight each flag is on
\* exactly when an odd number of its patches was published; two toggles of
\* one flag whose calls overlapped leave the flag as it was and both their
\* patches are published
C20_TogglesFlip ==
    /\ (Returned /\ last.cmd.action \in ToggleActions) =>
          /\ last.ret.type = "state_patch"
          /\ last.ret.commandId = last.cmd.id
          /\ last.ret.payload.path = TogglePath(last.cmd.action)
          /\ last.ret.payload.value = ~Flag(last.pre, last.cmd.action)
          /\ last.pubs = <<last.ret.payload>>
    /\ InFlight = {} =>
          \A a \in ToggleActions :
              Flag(state, a) = (Cardinality(PublishedOn(TogglePath(a))) % 2 = 1)
    /\ TwoToggles =>
          /\ Flag(state, batch[1].action) = Flag(base, batch[1].action)
          /\ \A i \in 1..2 : \E k \in PublishedOn(TogglePath(batch[1].action)) :
                published[k].ts = batch[i].ts

\* two toggle_mic Commands whose calls overlapped have returned: the
\* microphone flag is back where it was and two patches went out
C20_Witness ==
    /\ TwoToggles
    /\ batch[1].action = "toggle_mic"
    /\ Returned
    /\ ~last.alone
    /\ state.mic_enabled = base.mic_enabled
    /\ Cardinality({k \in PublishedOn(<<"mic_enabled">>) :
                      published[k].ts \in {batch[1].ts, batch[2].ts}}) = 2

\* the registry order restricted to the apps visible in a mode
VisibleSet(mode) ==
    IF mode = "public" THEN Range(APP_REGISTRY) \ {"email", "finance"}
    ELSE Range(APP_REGISTRY)

Restricted(mode) == SelectSeq(APP_REGISTRY, LAMBDA app : app \in VisibleSet(mode))

Position(v, x) == CHOOSE i \in DOMAIN v : v[i] = x

Successor(v, x) ==
    IF x \in Range(v)
    THEN IF Position(v, x) = Len(v) THEN v[1] ELSE v[Position(v, x) + 1]
    ELSE v[1]

Predecessor(v, x) ==
    IF x \in Range(v)
    THEN IF Position(v, x) = 1 THEN v[Len(v)] ELSE v[Position(v, x) - 1]
    ELSE v[Len(v)]

\* the routes repeated nav.nextApp goes through in public mode
PublicCycle == <<"home", "weather", "news", "todos", "calendar", "settings">>

\* C21: nav.nextApp sets ui.appRoute to the successor, nav.prevApp to the
\* predecessor, of the current route in the registry order restricted to the
\* visible set, wrapping around; from a route that is not visible the result
\* is the first (next) or last (prev) visible app; in public mode nav.nextApp
\* steps through home, weather, news, todos, calendar, settings, home
C21_NavSuccessor ==
    (Returned /\ last.cmd.action \in {"nav.nextApp", "nav.prevApp"}) =>
        LET v == Restricted(last.pre.ui_mode)
            cur == last.pre.app_route
        IN /\ last.post.app_route =
                 IF last.cmd.action = "nav.nextApp" THEN Successor(v, cur)
                 ELSE Predecessor(v, cur)
           /\ last.post.ui_mode = last.pre.ui_mode
           /\ \A i \in DOMAIN PublicCycle :
                 (/\ last.cmd.action = "nav.nextApp"
                  /\ last.pre.ui_mode = "public"
                  /\ cur = PublicCycle[i]) =>
                     last.post.app_route = PublicCycle[(i % Len(PublicCycle)) + 1]

\* nav.nextApp was handled in public mode on email, which is not visible
\* there, and led to the first visible app
C21_Witness ==
    /\ Returned
    /\ last.cmd.action = "nav.nextApp"
    /\ last.pre.ui_mode = "public"
    /\ last.pre.app_route = "email"
    /\ last.post.app_route = "home"

\* the Command a recognised voice.nav stands for
Counterpart(nav_action) ==
    CASE nav_action = "next" -> "nav.nextApp"
      [] nav_action \in {"prev", "previous"} -> "nav.prevApp"
      [] nav_action = "back" -> "nav.backOrHome"
      [] nav_action = "select" -> "app.selectFocus"

Recognised == {"next", "prev", "previous", "back", "select"}

\* the last returned call handled a voice.nav with a recognised action
VoiceNavReturned ==
    /\ Returned
    /\ last.cmd.action = "voice.nav"
    /\ Get(last.cmd.payload, "action", None) \in Recognised

\* C22: a voice.nav Command with action next, prev, previous, back or select
\* returns the Event, leaves the State, persists the Event and publishes the
\* patches that the corresponding nav.nextApp, nav.prevApp, nav.backOrHome or
\* app.selectFocus Command with the same id and ts does
C22_VoiceNavEquivalent ==
    VoiceNavReturned =>
        LET direct == [id |-> last.cmd.id, ts |-> last.cmd.ts, source |-> "gesture",
                       action |-> Counterpart(last.cmd.payload.action),
                       payload |-> EmptyDict]
            r == handle_command(last.pre, direct, last.cmd.ts)
        IN /\ last.post = r.s
           /\ last.ret.type = r.event.type
           /\ r.event.type # "None" =>
                 /\ SameEvent(last.ret, r.event)
                 /\ Stored(r.event)
           /\ r.event.type = "None" => \A i \in DOMAIN events : events[i].id # last.cmd.id
           /\ last.pubs = IF r.patch.path # <<>> THEN <<r.patch>> ELSE <<>>

\* "previous" was said on home while every app was visible, and the route
\* went to the last app of the registry
C22_Witness ==
    /\ VoiceNavReturned
    /\ last.cmd.payload.action = "previous"
    /\ last.pre.ui_mode # "public"
    /\ last.pre.app_route = "home"
    /\ last.post.app_route = "settings"
    /\ last.ret.type = "state_patch"
    /\ Len(last.pubs) = 1

\* a step in which a call returns that handled the same action and payload
\* as the call before it, from the State that call left
RepeatReturns ==
    /\ last.n > 0
    /\ last'.n = last.n + 1
    /\ last'.cmd.action = last.cmd.action
    /\ last'.cmd.payload = last.cmd.payload
    /\ last'.pre = last.post

NotIdempotentByDesign ==
    ToggleActions \cup PrefixTable["add_todo"]

\* C23: for every action other than the toggles and add_todo*, the State
\* after handling the same Command a second time in a row equals the State
\* after the first
C23_Idempotent ==
    [][(RepeatReturns /\ last.cmd.action \notin NotIdempotentByDesign) =>
          last'.post = last.post]_vars

\* the calls that step along the registry
Steps(cmd) ==
    \/ cmd.action \in {"nav.nextApp", "nav.prevApp"}
    \/ /\ cmd.action = "voice.nav"
       /\ Get(cmd.payload, "action", None) \in {"next", "prev", "previous"}

\* C23 as amended: the same, for every action other than the toggles,
\* add_todo* and the Commands that step to the next or previous app, and with
\* last_updated left out of the comparison
C23_IdempotentUnlessStepping ==
    [][(/\ RepeatReturns
        /\ last.cmd.action \notin NotIdempotentByDesign
        /\ ~Steps(last.cmd)) =>
          SameState(last'.post, last.post)]_vars

\* system.setMode to public was handled twice in a row: the first call left
\* email and published the route patch and the mode patch, the second
\* published the mode patch again and changed nothing
C23_Witness ==
    /\ Returned
    /\ last.cmd.action = "system.setMode"
    /\ Get(last.cmd.payload, "mode", None) = "public"
    /\ last.ret.type = "state_patch"
    /\ last.pre.ui_mode = "public"
    /\ last.post = last.pre
    /\ \E i \in 1..(Len(published) - 2) :
          /\ SamePatch(published[i], HomePatch(last.cmd.ts - 1))
          /\ SamePatch(published[i + 1], PublicPatch(last.cmd.ts - 1))
          /\ SamePatch(published[i + 2], PublicPatch(last.cmd.ts))

\* the /ui paths of the patch grammar
UiPaths(s) ==
    {<<"ui", "mode">>, <<"ui", "appRoute">>, <<"ui", "focusPath">>, <<"ui", "gnArmed">>,
     <<"ui", "debug", "enabled">>} \cup {<<"ui", "hud", k>> : k \in DOMAIN s.hud}

TopLevel(s, parts) == Len(parts) = 1 /\ parts[1] \in DOMAIN s

ListAppend(s, parts) ==
    Len(parts) = 2 /\ parts[1] \in {"todos", "focus_path"} /\ parts[2] = "+"

ListIndex(s, parts) ==
    /\ Len(parts) = 2
    /\ parts[1] \in {"todos", "focus_path"}
    /\ \E k \in 0..(Len(s[parts[1]]) - 1) : parts[2] = <<"0", "1", "2", "3">>[k + 1]

MappingKey(s, parts) == Len(parts) = 2 /\ parts[1] = "hud" /\ parts[2] # "+"

\* the path is of a recognised form and can take effect on s
Successful(s, parts) ==
    \/ TopLevel(s, parts)
    \/ ListAppend(s, parts)
    \/ ListIndex(s, parts)
    \/ MappingKey(s, parts)
    \/ parts \in UiPaths(s)

Patched == last.n > 0

\* path and value of the latest call
Parts == PatchInputs[last.input].parts

Value == PatchInputs[last.input].value

\* C24: every successful patch, of every recognised path form, sets
\* last_updated to the current clock value, and last_updated never decreases
C24_SuccessfulPatchStamps ==
    (Patched /\ Successful(last.pre, Parts)) =>
        /\ ~last.raised
        /\ last.post.last_updated = last.now
        /\ last.post.last_updated >= last.pre.last_updated

\* C25: apply_patch with a path that matches no recognised form or cannot
\* take effect raises no error and leaves every field of State, last_updated
\* included, as it was
C25_MalformedPathNoOp ==
    (Patched /\ ~Successful(last.pre, Parts)) =>
        /\ ~last.raised
        /\ last.post = last.pre

\* the defaults the data model documents
DocumentedDefaults(now) ==
    [mode |-> "idle", todos |-> <<>>, mic_enabled |-> FALSE, cam_enabled |-> FALSE,
     last_gesture |-> "idle", last_updated |-> now,
     ui |-> [mode |-> "public", appRoute |-> "home", focusPath |-> <<>>,
             gnArmed |-> FALSE, debug |-> [enabled |-> FALSE],
             hud |-> [micOn |-> FALSE, camOn |-> FALSE, wsConnected |-> FALSE,
                      wake |-> FALSE]]]

\* every part of State other than field f and last_updated is as it was
OthersUnchanged(f) ==
    \A g \in DOMAIN last.pre \ {f, "last_updated"} : last.post[g] = last.pre[g]

AppendsLast ==
    (Patched /\ ListAppend(last.pre, Parts)) =>
        /\ last.post[Parts[1]] = Append(last.pre[Parts[1]], Value)
        /\ OthersUnchanged(Parts[1])

FreshDefaults == ~Patched => to_dict(state) = DocumentedDefaults(clock)

\* C26: apply_patch on /<field>, an existing top-level field, sets exactly
\* that field to the value, and on /<list field>/+ appends the value as the
\* last element of the list; every other part of State except last_updated
\* is unchanged; a fresh State has the documented defaults
C26_AssignAndAppend ==
    /\ (Patched /\ TopLevel(last.pre, Parts)) =>
          /\ last.post[Parts[1]] = Value
          /\ OthersUnchanged(Parts[1])
    /\ AppendsLast
    /\ FreshDefaults

\* C26 as amended: the same, for every top-level field other than
\* last_updated, which holds the time of the call whatever the value
C26_AssignAndAppendButStamp ==
    /\ (Patched /\ TopLevel(last.pre, Parts)) =>
          /\ Parts[1] # "last_updated" => last.post[Parts[1]] = Value
          /\ Parts[1] = "last_updated" => last.post.last_updated = last.now
          /\ OthersUnchanged(Parts[1])
    /\ AppendsLast
    /\ FreshDefaults

\* a second todo was appended behind the first after other fields had
\* been set
C26_Witness ==
    /\ Patched
    /\ Parts = <<"todos", "+">>
    /\ Len(last.post.todos) = 2
    /\ last.post.todos[2] = Value
    /\ last.post.mode = "voice"
    /\ last.pre.mode = "voice"

\* C27: when the Ingress-to-Arbiter call for a Command has timed out (the
\* caller was answered 503), State is as it was before the Command, while
\* the call is still running and after it has returned
C27_TimeoutLeavesState ==
    /\ \A t \in InFlight : tasks[t].timedOut => state = tasks[t].pre
    /\ (Returned /\ last.timedOut) => last.post = last.pre

\* the steps of a call that change State: "mutate" is a call of
\* state.apply_patch, "assign" an assignment to an attribute of state
Direct(trace) == {i \in DOMAIN trace : trace[i] = "assign"}

\* C28: every change a handle_command call makes to State is made by a call
\* of State.apply_patch; no call, in flight or returned, has assigned a State
\* field directly
C28_OnlyPatchEngineMutates ==
    /\ \A t \in InFlight : Direct(tasks[t].trace) = {}
    /\ Returned => Direct(last.trace) = {}

IncreasingIds(rows) ==
    \A i, j \in DOMAIN rows : i < j => rows[i].id < rows[j].id

\* rows holds every row of before, unchanged and in the same place
Extends(rows, before) ==
    /\ Len(rows) >= Len(before)
    /\ \A i \in DOMAIN before : rows[i] = before[i]

\* C29: snapshot rows are only ever added, their ids increase strictly in
\* insertion order, and GET /api/v1/state returns the state the most recent
\* snapshot stored, which is State as it was when that snapshot was taken
C29_SnapshotsAppendOnly ==
    [][/\ Extends(snapshots', snapshots)
       /\ IncreasingIds(snapshots')
       /\ snapshots' # snapshots =>
             /\ Len(snapshots') = Len(snapshots) + 1
             /\ get_state(snapshots') = to_dict(state)
       /\ snapshots' = snapshots => get_state(snapshots') = get_state(snapshots)]_vars

\* two snapshots hold different States, a Command was handled after the
\* second, and the read returns the second
C29_Witness ==
    /\ Len(snapshots) = 2
    /\ snapshots[1].state # snapshots[2].state
    /\ to_dict(state) # snapshots[2].state
    /\ get_state(snapshots) = snapshots[2].state

\* a system.setMode Command carrying the configured code has been handled:
\* its Event is stored, or its call is past the check and still in flight
CodeSupplied ==
    \/ \E i \in DOMAIN events :
          /\ events[i].type = "state_patch"
          /\ events[i].payload.path = <<"ui", "mode">>
          /\ events[i].payload.value = "private"
    \/ \E t \in InFlight :
          /\ tasks[t].cmd.action = "system.setMode"
          /\ "code" \in DOMAIN tasks[t].cmd.payload
          /\ tasks[t].cmd.payload.code = "unlock"

\* C30: ui.appRoute is email or finance, or ui.mode differs from "public",
\* only if an earlier system.setMode Command carrying the configured
\* private-mode code was handled
C30_PrivateNeedsCode ==
    (state.app_route \in {"email", "finance"} \/ state.ui_mode # "public")
        => CodeSupplied

(***************************************************************************)
(* Clients mirroring State from the patches they receive.                  *)
(***************************************************************************)
\* the copy held by a client that started from s and applied the patches
\* i.. the broker accepted, in the order the broker accepted them
RECURSIVE Mirror(_, _)
Mirror(s, i) ==
    IF i > Len(published) THEN s
    ELSE Mirror(apply_patch(s, published[i].path, published[i].value, clock), i + 1)

\* C31: when Commands are handled concurrently, patches for one path reach
\* the broker in the order they were applied to State: once no Command is in
\* flight, a client connected throughout that applied every patch holds the
\* same value at every path as State
C31_PublishedInAppliedOrder ==
    InFlight = {} => SameState(state, Mirror(StateInit(0), 1))

\* State s after the patch frames i.. of fr have been applied to it
RECURSIVE Applied(_, _, _)
Applied(s, fr, i) ==
    IF i > Len(fr) THEN s
    ELSE Applied(apply_patch(s, fr[i].path, fr[i].value, clock), fr, i + 1)

\* the copy of a client that took its initial_state frame and applied every
\* patch frame that followed
Copy(c) == Applied(from_dict(frames[c][1].data), frames[c], 2)

\* the patch was applied to State before the client's initial_state was read
Contained(c, p) == p.ts <= frames[c][1].data.last_updated

\* the client has every published patch, in initial_state or as a frame
UpToDate(c) ==
    \A k \in DOMAIN published :
        HasFrame(c, published[k]) \/ Contained(c, published[k])

\* C32: a client that connected at any moment, a moment at which a call is
\* suspended between applying and publishing its patch included, and that
\* applied initial_state and every patch frame after it, holds a copy equal
\* to State once no Command is in flight and nothing remains to be sent to it
C32_JoinedCopyEqualsState ==
    \A c \in Clients :
        (frames[c] # <<>> /\ InFlight = {} /\ UpToDate(c)) =>
            SameState(Copy(c), state)

\* the control plane's client set changed while the broadcast was under way
\* and the broadcast now ends
EndsAfterChange ==
    /\ hub["cp"].pc = "send"
    /\ hub'["cp"].pc = "listen"
    /\ SetChanged("cp")

\* C33: when a client connected or disconnected while broadcast_to_clients
\* was suspended in a send, the patch has still been sent, by the time the
\* broadcast ends, to every other client that was in the set when it began
\* and stayed connected throughout
C33_MembershipChangeHarmless ==
    [][EndsAfterChange =>
          \A c \in hub["cp"].audience :
              (Subscribed(c, "cp") /\ conn[c].st = "open") =>
                  HasFrame(c, hub["cp"].msg)']_vars

(***************************************************************************)
(* The event log as the record of what was applied.                        *)
(***************************************************************************)
\* patch p is the payload of a state_patch Event with the given id in the
\* events table
Logged(p, id) ==
    \E k \in DOMAIN events :
        /\ events[k].type = "state_patch"
        /\ events[k].id = id
        /\ SamePatch(events[k].payload, p)

\* C34: with the event store healthy, once a call has returned every patch it
\* applied (and published) is the payload of a state_patch Event in the
\* events table whose id is the Command id, and the table holds at most one
\* Event with that id
C34_EveryPatchLogged ==
    Returned =>
        /\ \A i \in DOMAIN last.pubs : Logged(last.pubs[i], last.cmd.id)
        /\ Cardinality({k \in DOMAIN events : events[k].id = last.cmd.id}) <= 1

(***************************************************************************)
(* Opening an app by voice, and the Commands that produce no patch.        *)
(***************************************************************************)
\* the patch a voice.openApp Command that is let through produces
OpenPatch(cmd) == StatePatch(cmd.ts, <<"ui", "appRoute">>, cmd.payload.app)

\* C35: voice.openApp sets ui.appRoute to payload.app, publishes that patch
\* and returns a state_patch Event exactly when payload.app is in the visible
\* set of the current ui.mode; when payload.app is missing or not visible,
\* State is unchanged and nothing is published
C35_OpenAppWhenVisible ==
    (Returned /\ last.cmd.action = "voice.openApp") =>
        IF /\ "app" \in DOMAIN last.cmd.payload
           /\ last.cmd.payload.app \in VisibleSet(last.pre.ui_mode)
        THEN /\ last.post = [last.pre EXCEPT !.app_route = last.cmd.payload.app]
             /\ last.pubs = <<OpenPatch(last.cmd)>>
             /\ last.ret.type = "state_patch"
             /\ SamePatch(last.ret.payload, OpenPatch(last.cmd))
        ELSE /\ last.post = last.pre
             /\ last.pubs = <<>>
             /\ last.ret.type # "state_patch"

\* email was asked for in public mode after weather had been opened: the
\* route stays on weather and nothing went out
C35_Witness ==
    /\ Returned
    /\ last.cmd.action = "voice.openApp"
    /\ last.cmd.payload = [app |-> "email"]
    /\ last.pre.ui_mode = "public"
    /\ last.pre.app_route = "weather"
    /\ last.post.app_route = "weather"
    /\ last.pubs = <<>>

\* the Commands of the policy table that produce no patch
NoPatchActions == {"app.navigate", "app.selectFocus", "app.quickActions"}

\* the last returned call handled a Command that is to produce no patch
ProducesNoPatch ==
    /\ Returned
    /\ \/ last.cmd.action \in NoPatchActions
       \/ last.cmd.action = "nav.backOrHome" /\ last.pre.app_route = "home"

\* C36: app.navigate, app.selectFocus, app.quickActions and nav.backOrHome
\* on home return an accepted Event (app.navigate echoing payload.direction),
\* leave State unchanged and publish nothing; nav.backOrHome away from home
\* sets ui.appRoute to home and returns a state_patch Event
C36_NoPatchAccepted ==
    /\ ProducesNoPatch =>
          /\ last.ret.type = "accepted"
          /\ last.post = last.pre
          /\ last.pubs = <<>>
          /\ (last.cmd.action = "app.navigate" /\ "direction" \in DOMAIN last.cmd.payload) =>
                last.ret.payload.direction = last.cmd.payload.direction
    /\ (Returned /\ last.cmd.action = "nav.backOrHome" /\ last.pre.app_route # "home") =>
          /\ last.post.app_route = "home"
          /\ last.ret.type = "state_patch"

(***************************************************************************)
(* What to_dict() hands out.                                               *)
(***************************************************************************)
\* C37: the dict to_dict() returns gives no reference into State: a write
\* into the returned todos, focusPath or hud leaves State as it was, and an
\* apply_patch after the read leaves what was returned as it was
C37_NoLiveReference ==
    [][/\ last'.by = "holder" => state' = state
       /\ last'.by = "apply" => last'.own = last.own]_vars

(***************************************************************************)
(* The gesture worker.                                                     *)
(***************************************************************************)
\* C38: once GN is armed and the arming condition has stopped holding, GN
\* stays armed while less than GN_HYSTERESIS_MS have passed since the frame
\* at which the condition failed, and is disarmed from then on
C38_HysteresisFromFailure ==
    worker.lost >= 0 =>
        (worker.gn_armed <=> worker.now - worker.lost < GN_HYSTERESIS_MS)

\* the step is a frame of the worker, and the frame sent something
IsFrame == worker'.n = worker.n + 1

Sends == Len(worker'.sent) > Len(worker.sent)

\* C39: a gesture command is sent only for a frame whose gesture is not
\* idle, differs from the gesture of the frame before and comes more than
\* the cooldown after the last command sent; any two commands sent are more
\* than the cooldown apart, and a frame that repeats the gesture of the
\* frame before sends nothing, whether the earlier send failed or not
C39_DebouncedCommands ==
    [][IsFrame =>
          /\ Sends =>
                /\ worker'.last_gesture # "idle"
                /\ worker'.last_gesture # worker.last_gesture
                /\ worker.sent # <<>> =>
                      worker'.now - worker.sent[Len(worker.sent)].at
                          > COMMAND_COOLDOWN_DURATION
          /\ worker'.last_gesture = worker.last_gesture => ~Sends
          /\ \A i, j \in DOMAIN worker'.sent :
                i < j => worker'.sent[j].at - worker'.sent[i].at
                             > COMMAND_COOLDOWN_DURATION]_vars

\* four frames, two commands: the send of the first fist failed, and fist
\* was sent again only after another gesture and the cooldown
C39_Witness ==
    /\ worker.n = 4
    /\ Len(worker.sent) = 2
    /\ ~worker.sent[1].ok
    /\ worker.sent[1].action = "gesture_fist"
    /\ worker.sent[2].action = "gesture_fist"
    /\ worker.sent[2].ok

\* the values the worker sent for GN, in the order it sent them
GnSent == SelectSeq(worker.sent, LAMBDA m : m.action = "set_gn_armed")

\* a frame sends set_gn_armed exactly when the value it computed differs
\* from the last one sent (FALSE before any send), so the values alternate
SendsOnChange ==
    /\ [][IsFrame =>
             LET before == GnSent
                 lastSent == IF before = <<>> THEN FALSE
                             ELSE before[Len(before)].gnArmed
             IN (Len(GnSent') > Len(before)) <=> (worker'.gn_armed # lastSent)]_vars
    /\ [](\A i \in DOMAIN GnSent :
             i > 1 => GnSent[i].gnArmed # GnSent[i - 1].gnArmed)

\* the control plane was reachable at the last frame and has been since
Reachable == worker.reached /\ worker.link

====
